---- MODULE Spec2Model ----
(***************************************************************************)
(* Version resolution, upload pipeline, tabular queries and result cache   *)
(* of the database hosting web server (package main, handlers of           *)
(* src/unnamed/part_000) together with the form extractors of              *)
(* src/common/userinput.go.                                                *)
(*                                                                         *)
(* The metadata store, the object store gateway, the query engine and the  *)
(* cache client live in package "common" outside the files at hand; they   *)
(* are modelled from their contracts (sections 4.2 - 4.6 and 6 of the      *)
(* specification) and from the way the handlers call them.                 *)
(***************************************************************************)
EXTENDS Integers, Sequences, FiniteSets, TLC

(***************************************************************************)
(* Bounds of the model.                                                    *)
(***************************************************************************)
\* number of metadata records (finished or in flight uploads) explored
MaxRecords == 2
\* number of cache entries the cache server holds before it evicts
MaxCache == 1
\* number of collisions of the object id loop explored in one upload
MaxTries == 2
\* number of records removed from the metadata store
MaxRemoved == 1

(***************************************************************************)
(* Program constants.                                                      *)
(***************************************************************************)
\* row cap of an anonymous table view
AnonMaxRows == 10
\* row cap of visData
maxVals == 2500

(***************************************************************************)
(* Input domains.                                                          *)
(***************************************************************************)
\* user names known to the session layer; alice is the one who uploads
Users == {"alice", "bob"}
Owners == {"alice"}
\* requesting identities; the empty string is the anonymous requester
Requesters == Users \cup {""}
\* database names: "d" passes validation, "d?" does not
GoodNames == {"d"}
BadNames == {"d?"}
\* object ids RandomString(8) + ".db" can produce, cut down to two
ObjectIDs == {"k1.db", "k2.db"}
\* the accounts of the user store: name, identity at the login provider, email
Accounts == {[name |-> "alice", auth0id |-> "auth0|a", email |-> "alice@example.org"],
             [name |-> "bob", auth0id |-> "auth0|b", email |-> "bob@example.org"]}
\* values of the "public" form field
PublicInputs == {"true", "0", "yes"}

(***************************************************************************)
(* Uploaded byte contents.  "E" is the zero length file, "X" bytes that    *)
(* are not a database, "N" a database without tables, "A" a database     *)
(* with the tables t (two rows), u (no rows) and w (one row more than the  *)
(* row cap of visData).                                                    *)
(***************************************************************************)
FileData == {"E", "X", "N", "A"}

FileSize(d) == CASE d = "E" -> 0
                 [] d = "X" -> 3
                 [] d = "N" -> 4
                 [] OTHER -> 9

\* can the embedded engine open the bytes as a database
IsDatabase(d) == d \in {"N", "A"}

\* table list of a database, in the engine's order
TablesOf(d) == IF d = "A" THEN <<"t", "u", "w">> ELSE <<>>

\* column names of every table of the model
Columns == <<"a", "aa">>

\* a run of n equal rows one after the other; a row is a function on column names
Run(row, n) == [row |-> row, n |-> n]

\* rows of a table in natural row order, as a sequence of runs
RowsOf(d, t) ==
    IF d = "A" /\ t = "t"
    THEN << Run([a |-> "1", aa |-> "2"], 1), Run([a |-> "2", aa |-> "1"], 1) >>
    ELSE IF d = "A" /\ t = "w"
    THEN << Run([a |-> "1", aa |-> "2"], maxVals + 1) >>
    ELSE <<>>

\* number of rows of a sequence of runs
RECURSIVE Count(_)
Count(runs) == IF runs = <<>> THEN 0 ELSE Head(runs).n + Count(Tail(runs))

\* the first max rows of a sequence of runs
RECURSIVE Take(_, _)
Take(runs, max) ==
    IF runs = <<>> \/ max <= 0 THEN <<>>
    ELSE IF Head(runs).n >= max THEN << Run(Head(runs).row, max) >>
    ELSE <<Head(runs)>> \o Take(Tail(runs), max - Head(runs).n)

\* sha256.Sum256: modelled as an injective tag of the byte content
Sha256(d) == <<"sha256", d>>

\* md5.Sum followed by hex.EncodeToString: injective on the hashed string
Md5Hex(s) == "md5(" \o s \o ")"

(***************************************************************************)
(* State.                                                                  *)
(***************************************************************************)
\* the concurrent uploadDataHandler runs
Uploaders == {"u1", "u2"}

VARIABLES
    meta,      \* metadata store: sequence of database records, in insert order
    objects,   \* object store: function from <<bucket, id>> to byte content
    cache,     \* result cache: function from cache key to cache entry
    up,        \* per upload worker: position and locals of uploadDataHandler
    vis,       \* per visData worker: position and locals of the run in progress
    resp,      \* the response in flight to the requester
    workload,  \* the kind of requests the environment issues in this behaviour
    removed,   \* <<owner, name, version>> of the records removed from the metadata store
    sessions,  \* session store: the sessions handed out to browsers
    users,     \* user store: the registered accounts
    reg,       \* per createUserHandler worker: position and locals of the run
    prefs      \* preference store: function from user name to the stored preference

vars == <<meta, objects, cache, up, vis, resp, workload, removed, sessions, users, reg, prefs>>

\* one behaviour explores one workload: concurrent uploads alone; uploads one
\* at a time with downloads and table views; uploads one at a time with
\* visualisation requests and cache expiry; uploads one at a time with two
\* concurrent visualisation requests; uploads one at a time with the owner's
\* filtered visualisation requests; uploads one at a time with removals of
\* versions; logins and registrations; logins and changes of preferences;
\* readings of form values alone.  Handlers of
\* different workloads share no state but the metadata and the objects, which
\* only uploads write.
Workloads == {"uploads", "files", "vis", "visrace", "filters", "removals", "accounts",
              "prefs", "forms"}

\* the workloads with uploads
UploadWorkloads == {"uploads", "files", "vis", "visrace", "filters", "removals"}

\* the upload workers that run under a workload
ActiveUploaders == IF workload = "uploads" THEN Uploaders ELSE {"u1"}

\* the concurrent createUserHandler runs
RegWorkers == {"r1", "r2"}

\* the concurrent visData runs
VisWorkers == {"v1", "v2"}

\* the visData workers that run under a workload
ActiveVis == IF workload = "visrace" THEN VisWorkers ELSE {"v1"}



SeqToSet(s) == {s[i] : i \in 1..Len(s)}

Max(S) == CHOOSE m \in S : \A n \in S : n <= m

(***************************************************************************)
(* Responses.  status 0 stands for a handler that returned without writing *)
(* anything (the server then sends an empty 200).                          *)
(***************************************************************************)
NoBody == [kind |-> "none", rows |-> <<>>, rowCount |-> 0, totalRows |-> 0, text |-> ""]

NoQuery == [table |-> "", xcol |-> "", ycol |-> "", wcol |-> "", wtype |-> "", wval |-> ""]

\* a request as the extractors of package common see it: the components of
\* the URL path and the form values
NoRequest == [path |-> <<>>, username |-> "", folder |-> "", dbname |-> "", table |-> "",
              commit |-> ""]

\* session.Get(r) of a request that carries no session
NoSession == [kind |-> "none", UserName |-> "", auth0id |-> "", email |-> ""]

\* handler .. query: the request; status, msg, body: what the requester sees;
\* the other fields are bookkeeping of the model: err the kind of the resolver's
\* error, rec the record the resolver looked at and recPublic its visibility
\* then, src the record the body was computed from and srcPublic its visibility
\* at the access check, bodyQuery the form values the body was computed for,
\* key the cache key, cached whether the body came out of the cache, opened
\* and closed the object handles, fault the failure the run met, queried the
\* table names handed to the query engine, file the content of an upload,
\* scratch the scratch files the run left behind, pref the stored max-rows
\* preference of the requester, clauses the filter clauses handed to the query
\* engine, sql and params the statement the engine prepares for them and the
\* values it binds, profile the identity a login came back with, added the
\* sessions the run created and redirects the targets it redirected to, in
\* order, form the form value read and pub the flag read from it, cacheErr the
\* cache calls of the run that failed, sess the session the request carried and
\* ops the calls the run made on the session store, in order, maxrows the
\* "maxrows" form value of the request, request the request an extractor read
\* and out the values and the error it returned
NoResp == [handler |-> "none", requester |-> "", owner |-> "", name |-> "", version |-> 0,
           query |-> NoQuery, status |-> 0, msg |-> "", body |-> NoBody,
           err |-> "", rec |-> 0, recPublic |-> FALSE, src |-> 0, srcPublic |-> FALSE,
           bodyQuery |-> NoQuery, key |-> "", cached |-> FALSE, opened |-> 0,
           closed |-> 0, fault |-> "none", queried |-> <<>>, file |-> "", scratch |-> 0,
           pref |-> 0, clauses |-> <<>>, sql |-> "", params |-> <<>>,
           profile |-> [auth0id |-> "", email |-> ""], added |-> <<>>, redirects |-> <<>>,
           form |-> "", pub |-> FALSE, cacheErr |-> {}, sess |-> NoSession, ops |-> <<>>,
           maxrows |-> <<>>, request |-> NoRequest, out |-> [vals |-> <<>>, err |-> ""]]

\* errorPage(w, r, status, msg)
errorPage(status, msg) == [status |-> status, msg |-> msg, body |-> NoBody]

\* the response slot is free: the requester has received the previous response.
\* Every step waits for it, so a response is observed in the state it was sent in.
Ready == resp = NoResp

\* the run of a handler that panics: the server drops the connection
Panic == [status |-> 0, msg |-> "panic", body |-> NoBody]

\* a handler that returns without writing: the server sends an empty 200
Silent == [status |-> 200, msg |-> "", body |-> NoBody]

\* fmt.Fprintf(w, "%s", body) and the other successful writes
Page(body) == [status |-> 200, msg |-> "", body |-> body]


(***************************************************************************)
(* Metadata store (package common, not among the files at hand).           *)
(***************************************************************************)
\* indexes of the records stored for (owner, name)
RecordsOf(owner, name) ==
    {i \in 1..Len(meta) : meta[i].owner = owner /\ meta[i].name = name}

\* version numbers stored for (owner, name)
VersionsOf(owner, name) == {meta[i].version : i \in RecordsOf(owner, name)}

\* HighestVersion(owner, name): 0 when the pair has no record
HighestVersion(owner, name) ==
    IF VersionsOf(owner, name) = {} THEN 0 ELSE Max(VersionsOf(owner, name))

\* error values; Error() of AccessDenied and NotFound is one generic text
ErrorText(kind) ==
    CASE kind \in {"AccessDenied", "NotFound"} -> "The requested database doesn't exist"
      [] kind = "VersionNotFound" -> "The requested version doesn't exist"
      [] OTHER -> kind

\* rec is the record the metadata store looked at (0: none); it is bookkeeping
\* of the model, the handlers only see ok, the error and the locator
ResolveError(kind, i) == [ok |-> FALSE, kind |-> kind, text |-> ErrorText(kind),
                          rec |-> i, bucket |-> "", id |-> ""]

ResolveOK(i) == [ok |-> TRUE, kind |-> "", text |-> "",
                 rec |-> i, bucket |-> meta[i].bucket, id |-> meta[i].id]

\* the visibility rule applied to record i
ResolveRecord(i, owner, requester) ==
    IF ~meta[i].public /\ requester # owner
    THEN ResolveError("AccessDenied", i)
    ELSE ResolveOK(i)

\* Resolve(owner, dbName, version, requester): the outcomes the metadata store
\* can answer with (more than one only when a version number is stored twice)
Resolve(owner, name, version, requester) ==
    IF RecordsOf(owner, name) = {} THEN {ResolveError("NotFound", 0)}
    ELSE LET v == IF version = 0 THEN HighestVersion(owner, name) ELSE version
             hits == {i \in RecordsOf(owner, name) : meta[i].version = v}
         IN  IF hits = {} THEN {ResolveError("VersionNotFound", 0)}
             ELSE {ResolveRecord(i, owner, requester) : i \in hits}

\* com.MinioBucketID(dbOwner, dbName, dbVersion, loggedInUser)
MinioBucketID(owner, name, version, requester) == Resolve(owner, name, version, requester)

\* com.CheckUserDBAccess(&DB, loggedInUser, dbOwner, dbName): the default version
CheckUserDBAccess(requester, owner, name) == Resolve(owner, name, 0, requester)

\* com.HighestDBVersion(user, dbName, "/"): the value highVer can take; a failed
\* lookup hands back a value that is not positive together with its error
HighestDBVersion(user, name) == {HighestVersion(user, name), -1}

\* com.MinioUserBucket(user)
MinioUserBucket(user) == "bkt-" \o user

\* com.CheckMinioIDAvail(user, id): no record of that user carries the id
CheckMinioIDAvail(user, id) ==
    \A i \in 1..Len(meta) : meta[i].owner = user => meta[i].id # id

\* com.AddDatabase(...): the record InsertRecord appends
AddDatabase(user, folder, name, ver, sha, size, public, bucket, id) ==
    Append(meta, [owner |-> user, folder |-> folder, name |-> name, version |-> ver,
                  sha |-> sha, size |-> size, public |-> public,
                  bucket |-> bucket, id |-> id])

\* SetVisibility(owner, name, public): flips every record of the pair
SetVisibilityOf(owner, name, public) ==
    [i \in 1..Len(meta) |->
        IF meta[i].owner = owner /\ meta[i].name = name
        THEN [meta[i] EXCEPT !.public = public] ELSE meta[i]]

(***************************************************************************)
(* Object store gateway (package common).                                  *)
(***************************************************************************)
\* com.StoreMinioObject(bucket, id, content, contentType): a plain put
StoreMinioObject(bucket, id, data) ==
    [l \in DOMAIN objects \cup {<<bucket, id>>} |->
        IF l = <<bucket, id>> THEN data ELSE objects[l]]

(***************************************************************************)
(* strconv.ParseBool                                                       *)
(***************************************************************************)
ParseBoolOK(s) == s \in {"1", "t", "T", "TRUE", "true", "True",
                         "0", "f", "F", "FALSE", "false", "False"}

ParseBool(s) == s \in {"1", "t", "T", "TRUE", "true", "True"}

\* com.ValidateDB(dbName)
ValidateDB(name) == name \in GoodNames


(***************************************************************************)
(* Tabular query engine (package common).                                  *)
(***************************************************************************)
IsTable(data, table) == \E i \in 1..Len(TablesOf(data)) : TablesOf(data)[i] = table

IsColumn(col) == \E i \in 1..Len(Columns) : Columns[i] = col

\* a row as the ordered sequence of its <<column, value>> pairs
RowOf(r, cols) == [i \in 1..Len(cols) |-> <<cols[i], r[cols[i]]>>]

\* order of the values the model stores: digit strings compare as numbers
Rank(v) == CASE v = "1" -> 1 [] v = "2" -> 2 [] v = "7" -> 7 [] OTHER -> 0

\* one filter clause applied to a row, the value compared as a bound parameter
Matches(r, clause) ==
    LET v == r[clause.Column] IN
    CASE clause.Type = "=" -> v = clause.Value
      [] clause.Type = "!=" -> v # clause.Value
      [] clause.Type = "<" -> Rank(v) < Rank(clause.Value)
      [] clause.Type = "<=" -> Rank(v) <= Rank(clause.Value)
      [] clause.Type = ">" -> Rank(v) > Rank(clause.Value)
      [] clause.Type = ">=" -> Rank(v) >= Rank(clause.Value)
      [] OTHER -> v = clause.Value \/ clause.Value = "%"

\* the subsequence of rows that satisfy every clause
Filter(rows, clauses) ==
    SelectSeq(rows, LAMBDA r : \A i \in 1..Len(clauses) : Matches(r.row, clauses[i]))

RecordSetError(text) == [ok |-> FALSE, text |-> text, rows |-> <<>>, rowCount |-> 0, totalRows |-> 0]

\* RowSet of the first max rows; TotalRows is left for GetSQLiteRowCount to fill
RecordSet(rows, cols, max) ==
    LET out == Take(rows, max) IN
    [ok |-> TRUE, text |-> "",
     rows |-> [i \in 1..Len(out) |-> Run(RowOf(out[i].row, cols), out[i].n)],
     rowCount |-> Count(out), totalRows |-> 0]

\* com.ReadSQLiteDB(sdb, table, maxRows): full dump
ReadSQLiteDB(data, table, max) ==
    IF ~IsTable(data, table) THEN RecordSetError("no such table: " \o table)
    ELSE RecordSet(RowsOf(data, table), Columns, max)

\* com.ReadSQLiteDBCols(sdb, table, true, true, maxVals, whereClauses, xCol, yCol)
ReadSQLiteDBCols(data, table, max, clauses, xCol, yCol) ==
    IF ~IsTable(data, table) THEN RecordSetError("no such table: " \o table)
    ELSE IF ~IsColumn(xCol) \/ ~IsColumn(yCol) THEN RecordSetError("no such column")
    ELSE IF \E i \in 1..Len(clauses) : ~IsColumn(clauses[i].Column)
         THEN RecordSetError("no such column")
    ELSE RecordSet(Filter(RowsOf(data, table), clauses), <<xCol, yCol>>, max)

\* com.GetSQLiteRowCount(sdb, table): SELECT COUNT(*)
GetSQLiteRowCount(data, table) == Count(RowsOf(data, table))

\* com.ReadSQLiteDBCSV(sdb, table): header row and data rows, nothing on failure
ReadSQLiteDBCSV(data, table) ==
    IF ~IsTable(data, table) THEN <<>>
    ELSE << Run(Columns, 1) >>
         \o [i \in 1..Len(RowsOf(data, table)) |->
                Run([j \in 1..Len(Columns) |-> RowsOf(data, table)[i].row[Columns[j]]],
                    RowsOf(data, table)[i].n)]

\* com.OpenMinioObject / com.MinioHandle: does a handle come back
CanOpen(bucket, id, backendOK) == backendOK /\ <<bucket, id>> \in DOMAIN objects

\* bytes behind a locator
ObjectAt(bucket, id) == objects[<<bucket, id>>]

(***************************************************************************)
(* Response bodies.                                                        *)
(***************************************************************************)
\* json.MarshalIndent / json.Marshal of a record set
JsonBody(rs) == [kind |-> "json", rows |-> rs.rows, rowCount |-> rs.rowCount,
                 totalRows |-> rs.totalRows, text |-> ""]

\* the two bytes '{' ']' tableViewHandler writes for an empty record set
EmptySetIndicator == [kind |-> "malformed", rows |-> <<>>, rowCount |-> 0,
                      totalRows |-> 0, text |-> "{]"]

\* csv.NewWriter(w).WriteAll(resultSet)
CsvBody(lines) == [kind |-> "csv", rows |-> lines, rowCount |-> Count(lines),
                   totalRows |-> 0, text |-> ""]

\* io.Copy(w, userDB)
FileBody(data) == [kind |-> "file", rows |-> <<>>, rowCount |-> 0, totalRows |-> 0,
                   text |-> data]

(***************************************************************************)
(* uploadDataHandler                                                       *)
(***************************************************************************)
NoFile == [name |-> "", data |-> "E", present |-> FALSE]

UploadFiles ==
    {NoFile} \cup [name : GoodNames \cup BadNames, data : FileData, present : {TRUE}]

\* failures of the local steps: reading the form, copying the upload,
\* creating, writing and opening the scratch file
UploadFaults == {"none", "form", "copy", "tempfile", "write", "open"}

UpIdle == [pc |-> "idle", user |-> "", dbName |-> "", data |-> "E", public |-> FALSE,
           sha |-> Sha256("E"), newVer |-> 0, bucket |-> "", id |-> "",
           highErr |-> FALSE, tries |-> 0]

Passed == [status |-> 0, msg |-> "passed", body |-> NoBody]

\* the checks with the length of the upload looked at before its name
uploadChecks_sizeFirst(user, pubStr, file, fault) ==
    CASE user = "" -> errorPage(401, "You need to be logged in")
      [] fault = "form" -> errorPage(500, "ParseForm")
      [] ~ParseBoolOK(pubStr) -> errorPage(400, "Public value incorrect")
      [] ~file.present -> errorPage(500, "Database file missing from upload data?")
      [] fault = "copy" -> errorPage(500, "Internal error")
      [] FileSize(file.data) = 0 -> errorPage(400, "Database file is 0 length?")
      [] ~ValidateDB(file.name) -> errorPage(400, "Invalid database name")
      [] fault = "tempfile" -> Panic
      [] fault \in {"write", "open"} -> errorPage(500, "Internal error")
      [] ~IsDatabase(file.data) ->
            errorPage(500, "Error when sanity checking file.  Possibly encrypted or not a database?")
      [] Len(TablesOf(file.data)) = 0 -> errorPage(500, "Database has no tables?")
      [] OTHER -> Passed

\* the checks of uploadDataHandler up to the sanity check, in the code's order:
\* the error page the handler answers with, or Passed
\* (line 891 asks the name of the file ioutil.TempFile failed to create: a nil
\* dereference)
uploadChecks(user, pubStr, file, fault) ==
    CASE user = "" -> errorPage(401, "You need to be logged in")
      [] fault = "form" -> errorPage(500, "ParseForm")
      [] ~ParseBoolOK(pubStr) -> errorPage(400, "Public value incorrect")
      [] ~file.present -> errorPage(500, "Database file missing from upload data?")
      [] ~ValidateDB(file.name) -> errorPage(400, "Invalid database name")
      [] fault = "copy" -> errorPage(500, "Internal error")
      [] FileSize(file.data) = 0 -> errorPage(400, "Database file is 0 length?")
      [] fault = "tempfile" -> Panic
      [] fault \in {"write", "open"} -> errorPage(500, "Internal error")
      [] ~IsDatabase(file.data) ->
            errorPage(500, "Error when sanity checking file.  Possibly encrypted or not a database?")
      [] Len(TablesOf(file.data)) = 0 -> errorPage(500, "Database has no tables?")
      [] OTHER -> Passed

\* lines 888-905: the scratch files a run that ends in the checks leaves behind.
\* ioutil.TempFile creates the file at line 888; os.Remove is deferred at line
\* 905, after the return of a failed write
uploadScratchLeft(user, pubStr, file, fault) ==
    LET created == /\ user # ""
                   /\ fault \notin {"form", "copy", "tempfile"}
                   /\ ParseBoolOK(pubStr)
                   /\ file.present
                   /\ ValidateDB(file.name)
                   /\ FileSize(file.data) # 0
        deferred == created /\ fault # "write"
    IN  IF created /\ ~deferred THEN 1 ELSE 0

\* the version number given to the upload, from the looked up highest version
NextVersion(highVer) == IF highVer > 0 THEN highVer + 1 ELSE 1

UploadResp(user, name, page) ==
    [NoResp EXCEPT !.handler = "upload", !.status = page.status, !.msg = page.msg, !.body = page.body]

UploadsInFlight == Cardinality({w \in Uploaders : up[w].pc # "idle"})

\* lines 814-930: session, form, name validation, scratch file, sanity check, digest
uploadBegin(w) ==
    /\ workload \in UploadWorkloads
    /\ up[w].pc = "idle"
    /\ \A v \in VisWorkers : vis[v].pc = "idle"
    /\ Ready
    /\ Len(meta) + UploadsInFlight < MaxRecords
    /\ \E user \in Owners \cup {""}, pubStr \in PublicInputs, file \in UploadFiles,
          fault \in UploadFaults :
          LET page == uploadChecks(user, pubStr, file, fault) IN
          IF page = Passed
          THEN /\ up' = [up EXCEPT ![w] =
                            [UpIdle EXCEPT !.pc = "version", !.user = user,
                                           !.dbName = file.name, !.data = file.data,
                                           !.public = ParseBool(pubStr),
                                           !.sha = Sha256(file.data)]]
               /\ UNCHANGED resp
          ELSE /\ resp' = [UploadResp(user, file.name, page) EXCEPT
                                !.name = file.name, !.file = file.data,
                                !.scratch = uploadScratchLeft(user, pubStr, file, fault)]
               /\ UNCHANGED up
    /\ UNCHANGED <<meta, objects, cache, vis, workload, removed, sessions, users, reg, prefs>>

\* lines 932-947: next version number and the user's bucket
uploadVersion(w) ==
    /\ Ready
    /\ up[w].pc = "version"
    /\ \E highVer \in HighestDBVersion(up[w].user, up[w].dbName), bucketOK \in BOOLEAN :
          IF bucketOK
          THEN /\ up' = [up EXCEPT ![w].pc = "genid",
                                   ![w].newVer = NextVersion(highVer),
                                   ![w].highErr = highVer < 0,
                                   ![w].bucket = MinioUserBucket(up[w].user)]
               /\ UNCHANGED resp
          ELSE /\ up' = [up EXCEPT ![w] = UpIdle]
               /\ resp' = UploadResp(up[w].user, up[w].dbName,
                                     errorPage(500, "Database query failure"))
    /\ UNCHANGED <<meta, objects, cache, vis, workload, removed, sessions, users, reg, prefs>>

\* lines 949-959: one round of the loop that draws a random object id; tries
\* counts the collisions of the run, of which MaxTries are explored
uploadGenID(w) ==
    /\ Ready
    /\ up[w].pc = "genid"
    /\ \E id \in ObjectIDs, lookupOK \in BOOLEAN :
          IF ~lookupOK
          THEN /\ up' = [up EXCEPT ![w] = UpIdle]
               /\ resp' = UploadResp(up[w].user, up[w].dbName,
                                     errorPage(500, "Database query failure"))
          ELSE IF CheckMinioIDAvail(up[w].user, id)
          THEN /\ up' = [up EXCEPT ![w].id = id, ![w].pc = "store"]
               /\ UNCHANGED resp
          ELSE /\ up[w].tries < MaxTries
               /\ up' = [up EXCEPT ![w].id = id, ![w].tries = @ + 1]
               /\ UNCHANGED resp
    /\ UNCHANGED <<meta, objects, cache, vis, workload, removed, sessions, users, reg, prefs>>

\* uploadDataHandler going on to the metadata although the store failed
uploadStore_unchecked(w) ==
    /\ Ready
    /\ up[w].pc = "store"
    /\ \E storeOK \in BOOLEAN :
          objects' = IF storeOK
                     THEN StoreMinioObject(up[w].bucket, up[w].id, up[w].data)
                     ELSE objects
    /\ up' = [up EXCEPT ![w].pc = "add"]
    /\ UNCHANGED <<meta, cache, vis, resp, workload, removed, sessions, users, reg, prefs>>

\* lines 961-966: store the bytes
uploadStore(w) ==
    /\ Ready
    /\ up[w].pc = "store"
    /\ \E storeOK \in BOOLEAN :
          IF storeOK
          THEN /\ objects' = StoreMinioObject(up[w].bucket, up[w].id, up[w].data)
               /\ up' = [up EXCEPT ![w].pc = "add"]
               /\ UNCHANGED resp
          ELSE /\ up' = [up EXCEPT ![w] = UpIdle]
               /\ resp' = UploadResp(up[w].user, up[w].dbName,
                                     errorPage(500, "Storing database file failed"))
               /\ UNCHANGED objects
    /\ UNCHANGED <<meta, cache, vis, workload, removed, sessions, users, reg, prefs>>

\* uploadDataHandler emptying the result cache when the upload has succeeded
uploadAdd_invalidating(w) ==
    /\ Ready
    /\ up[w].pc = "add"
    /\ \E addOK \in BOOLEAN :
          IF addOK
          THEN /\ meta' = AddDatabase(up[w].user, "/", up[w].dbName, up[w].newVer,
                                      up[w].sha, FileSize(up[w].data), up[w].public,
                                      up[w].bucket, up[w].id)
               /\ resp' = [UploadResp(up[w].user, up[w].dbName,
                                      [status |-> 200, msg |-> "Upload succeeded",
                                       body |-> NoBody])
                              EXCEPT !.version = up[w].newVer, !.src = Len(meta) + 1]
               /\ cache' = << >>
          ELSE /\ resp' = UploadResp(up[w].user, up[w].dbName,
                               errorPage(500, "Adding database details to PostgreSQL failed"))
               /\ UNCHANGED <<meta, cache>>
    /\ up' = [up EXCEPT ![w] = UpIdle]
    /\ UNCHANGED <<objects, vis, workload, removed, sessions, users, reg, prefs>>

\* lines 968-989: record the metadata and report success
uploadAdd(w) ==
    /\ Ready
    /\ up[w].pc = "add"
    /\ \E addOK \in BOOLEAN :
          IF addOK
          THEN /\ meta' = AddDatabase(up[w].user, "/", up[w].dbName, up[w].newVer,
                                      up[w].sha, FileSize(up[w].data), up[w].public,
                                      up[w].bucket, up[w].id)
               /\ resp' = [UploadResp(up[w].user, up[w].dbName,
                                      [status |-> 200, msg |-> "Upload succeeded",
                                       body |-> NoBody])
                              EXCEPT !.version = up[w].newVer, !.src = Len(meta) + 1]
          ELSE /\ resp' = UploadResp(up[w].user, up[w].dbName,
                               errorPage(500, "Adding database details to PostgreSQL failed"))
               /\ UNCHANGED meta
    /\ up' = [up EXCEPT ![w] = UpIdle]
    /\ UNCHANGED <<objects, cache, vis, workload, removed, sessions, users, reg, prefs>>

\* the process running the upload dies between two steps: nothing is answered
uploadCrash(w) ==
    /\ Ready
    /\ up[w].pc # "idle"
    /\ up' = [up EXCEPT ![w] = UpIdle]
    /\ UNCHANGED <<meta, objects, cache, vis, resp, workload, removed, sessions, users, reg, prefs>>

\* a version is removed outside the handlers: its record leaves the metadata
\* store, the object stays
removeVersion ==
    /\ workload = "removals"
    /\ Ready
    /\ Cardinality(removed) < MaxRemoved
    /\ \E i \in 1..Len(meta) :
          /\ meta' = [j \in 1..(Len(meta) - 1) |-> IF j < i THEN meta[j] ELSE meta[j + 1]]
          /\ removed' = removed \cup {<<meta[i].owner, meta[i].name, meta[i].version>>}
    /\ UNCHANGED <<objects, cache, up, vis, resp, workload, sessions, users, reg, prefs>>

(***************************************************************************)
(* downloadHandler, downloadCSVHandler, tableViewHandler                   *)
(***************************************************************************)
\* version numbers and table names a request can carry
ReqVersions == 0..(MaxRecords + 1)
ReqTables == {"", "t", "u", "w", "zz"}

\* requests: urlOK is whether GetODV / GetODTV accept the URL
FileRequests ==
    [requester : Requesters, owner : Owners, name : GoodNames, version : ReqVersions,
     table : ReqTables, urlOK : BOOLEAN]

\* the response to a URL the extractor refuses: no component reaches the handler
BadURL(handler) ==
    [NoResp EXCEPT !.handler = handler, !.status = 400,
                   !.msg = "Invalid owner or database name"]

\* the response record of a request, the bookkeeping fields still empty
RespFor(handler, req, page) ==
    [NoResp EXCEPT !.handler = handler, !.requester = req.requester, !.owner = req.owner,
                   !.name = req.name, !.version = req.version, !.query.table = req.table,
                   !.status = page.status, !.msg = page.msg, !.body = page.body]

\* the resolver's answer as the bookkeeping fields record it
Resolved(r, res) ==
    [r EXCEPT !.err = res.kind, !.rec = res.rec,
              !.recPublic = IF res.rec = 0 THEN FALSE ELSE meta[res.rec].public]

\* the body was computed from the resolved record through one handle
Served(r, res, closed) ==
    [r EXCEPT !.src = res.rec, !.srcPublic = meta[res.rec].public,
              !.opened = 1, !.closed = closed]

\* the failure the run met and the table names it handed to the query engine
Ran(r, fault, queried) == [r EXCEPT !.fault = fault, !.queried = queried]

\* failures a read handler can meet after the resolver: the object does not
\* open (open: an unusable handle comes back, openNil: none comes back), the
\* table list, the query or the count fails, the copy to the requester breaks
OpenFaults == {"open", "openNil"}
DownloadFaults == {"none", "open", "copy"}
CSVFaults == {"none", "open", "query", "write"}
TableViewFaults == {"none", "open", "openNil", "tables", "query", "count"}
VisFaults == {"none", "open", "tables", "query"}

\* fmt.Fprintf(w, "%s: Error returning DB file: %v\n", pageName, err)
CopyErrorBody == [kind |-> "text", rows |-> <<>>, rowCount |-> 0, totalRows |-> 0,
                  text |-> "Error returning DB file"]

\* lines 323-324: the identity downloadHandler resolves with
downloadResolve(req) ==
    MinioBucketID(req.owner, req.name, req.version, req.requester)

\* lines 325-328: the answer to a resolver error
downloadRefused(res) == errorPage(500, res.text)

\* lines 302-354
downloadHandler(req, res, fault) ==
    IF ~req.urlOK
    THEN BadURL("download")
    ELSE IF ~res.ok
    THEN Resolved(RespFor("download", req, downloadRefused(res)), res)
    ELSE IF ~CanOpen(res.bucket, res.id, fault \notin OpenFaults)
    THEN Ran(Resolved(RespFor("download", req, errorPage(500, "StorageUnavailable")), res),
             "open", <<>>)
    ELSE IF fault = "copy"
    THEN Ran(Served(Resolved(RespFor("download", req, Page(CopyErrorBody)), res), res, 1),
             fault, <<>>)
    ELSE Served(Resolved(RespFor("download", req,
                                 Page(FileBody(ObjectAt(res.bucket, res.id)))), res),
                res, 1)

\* lines 272-273: the identity downloadCSVHandler resolves with
downloadCSVResolve(req) ==
    MinioBucketID(req.owner, req.name, req.version, req.requester)

\* downloadCSVHandler answering a refused access with its own status
downloadCSVRefused_forbidden(res) ==
    IF res.kind = "AccessDenied" THEN errorPage(403, "Access denied")
    ELSE errorPage(500, res.text)

\* lines 274-277: the answer to a resolver error
downloadCSVRefused(res) == errorPage(500, res.text)

\* lines 287-299: the error of ReadSQLiteDBCSV is overwritten unread
downloadCSVRead(data, dbTable, fault) ==
    LET resultSet == IF fault = "query" THEN <<>> ELSE ReadSQLiteDBCSV(data, dbTable) IN
    IF fault = "write" THEN errorPage(500, "Error when generating CSV")
    ELSE Page(CsvBody(resultSet))

\* lines 243-300
downloadCSVHandler(req, res, fault) ==
    IF ~req.urlOK
    THEN BadURL("csv")
    ELSE IF req.table = ""
    THEN RespFor("csv", req, errorPage(400, "No table name given"))
    ELSE IF ~res.ok
    THEN Resolved(RespFor("csv", req, downloadCSVRefused(res)), res)
    ELSE IF ~CanOpen(res.bucket, res.id, fault \notin OpenFaults)
    THEN Ran(Resolved(RespFor("csv", req, errorPage(500, "Database query failed")), res),
             "open", <<>>)
    ELSE Ran(Served(Resolved(RespFor("csv", req,
                        downloadCSVRead(ObjectAt(res.bucket, res.id), req.table, fault)),
                        res),
                    res, 0),
             fault, <<req.table>>)

\* lines 709-717: the row cap of a table view
tableViewMaxRows(requester, prefMaxRows) ==
    IF requester # "" THEN prefMaxRows ELSE AnonMaxRows

\* lines 769-781: the output format of a table view
tableViewFormat(dataRows) ==
    IF dataRows.rowCount > 0 THEN JsonBody(dataRows) ELSE EmptySetIndicator

\* tableViewHandler dropping the requested version
tableViewResolve_latest(req) == MinioBucketID(req.owner, req.name, 0, req.requester)

\* lines 695-696: the identity tableViewHandler resolves with
tableViewResolve(req) ==
    MinioBucketID(req.owner, req.name, req.version, req.requester)

\* lines 719-785, once the object is open: table list, query, count, output
tableViewRead(data, requestedTable, maxRows, fault) ==
    IF fault = "tables" \/ ~IsDatabase(data) THEN Silent
    ELSE IF Len(TablesOf(data)) = 0 THEN Silent
    ELSE IF requestedTable # "" /\ ~IsTable(data, requestedTable)
    THEN errorPage(400, "Requested table does not exist")
    ELSE LET table == IF requestedTable = "" THEN TablesOf(data)[1] ELSE requestedTable
             dataRows == IF fault = "query" THEN RecordSetError("database is locked")
                         ELSE ReadSQLiteDB(data, table, maxRows)
         IN  IF ~dataRows.ok THEN errorPage(400, dataRows.text)
             ELSE IF fault = "count" THEN errorPage(500, "database is locked")
             ELSE Page(tableViewFormat(
                         [dataRows EXCEPT !.totalRows = GetSQLiteRowCount(data, table)]))

\* lines 734-763: the table names tableViewHandler hands to the query engine
tableViewQueried(data, requestedTable, fault) ==
    IF fault = "tables" \/ ~IsDatabase(data) \/ Len(TablesOf(data)) = 0 THEN <<>>
    ELSE IF requestedTable # "" /\ ~IsTable(data, requestedTable) THEN <<>>
    ELSE IF requestedTable = "" THEN <<TablesOf(data)[1]>> ELSE <<requestedTable>>

\* lines 697-700: the answer to a resolver error
tableViewRefused(res) == errorPage(500, res.text)

\* lines 719-727 when OpenMinioObject fails: its error is overwritten unread and
\* the table list is asked of what came back; with no handle the run panics,
\* with an unusable one the list fails and the handler returns without writing
tableViewOpenFailed(fault) == IF fault = "openNil" THEN Panic ELSE Silent

\* lines 673-785
tableViewHandler(req, res, fault, prefMaxRows) ==
    IF ~req.urlOK
    THEN BadURL("table")
    ELSE IF ~res.ok
    THEN Resolved(RespFor("table", req, tableViewRefused(res)), res)
    ELSE IF res.id = ""
    THEN Resolved(RespFor("table", req, Silent), res)
    ELSE IF ~CanOpen(res.bucket, res.id, fault \notin OpenFaults)
    THEN Ran(Resolved(RespFor("table", req,
                              tableViewOpenFailed(IF fault \in OpenFaults THEN fault
                                                  ELSE "open")), res),
             IF fault \in OpenFaults THEN fault ELSE "open", <<>>)
    ELSE [Ran(Served(Resolved(RespFor("table", req,
                        tableViewRead(ObjectAt(res.bucket, res.id), req.table,
                                      tableViewMaxRows(req.requester, prefMaxRows), fault)),
                        res),
                    res, 0),
              fault,
              tableViewQueried(ObjectAt(res.bucket, res.id), req.table, fault))
          EXCEPT !.pref = prefMaxRows]

\* the stored max-rows preferences a logged in requester can have
PrefMaxRows == {1, 10}

\* the requester receives the response
receive ==
    /\ resp # NoResp
    /\ resp' = NoResp
    /\ UNCHANGED <<meta, objects, cache, up, vis, workload, removed, sessions, users, reg, prefs>>

download ==
    /\ workload = "files"
    /\ Ready
    /\ \E req \in {q \in FileRequests : q.table = ""}, fault \in DownloadFaults :
         \E res \in downloadResolve(req) :
            resp' = downloadHandler(req, res, fault)
    /\ UNCHANGED <<meta, objects, cache, up, vis, workload, removed, sessions, users, reg, prefs>>

downloadCSV ==
    /\ workload = "files"
    /\ Ready
    /\ \E req \in FileRequests, fault \in CSVFaults :
         \E res \in downloadCSVResolve(req) :
            resp' = downloadCSVHandler(req, res, fault)
    /\ UNCHANGED <<meta, objects, cache, up, vis, workload, removed, sessions, users, reg, prefs>>

tableView ==
    /\ workload = "files"
    /\ Ready
    /\ \E req \in FileRequests, fault \in TableViewFaults, prefMaxRows \in PrefMaxRows :
         \E res \in tableViewResolve(req) :
            resp' = tableViewHandler(req, res, fault, prefMaxRows)
    /\ UNCHANGED <<meta, objects, cache, up, vis, workload, removed, sessions, users, reg, prefs>>

(***************************************************************************)
(* visData and the result cache                                            *)
(***************************************************************************)
Query(table, xcol, ycol, wcol, wtype, wval) ==
    [table |-> table, xcol |-> xcol, ycol |-> ycol, wcol |-> wcol, wtype |-> wtype,
     wval |-> wval]

\* the form values explored: full dumps, column pairs, a filter, values that
\* fail validation
VisQueries ==
    { Query("t", "", "", "", "", ""),
      Query("", "", "", "", "", ""),
      Query("zz", "", "", "", "", ""),
      Query("t", "a", "aa", "", "", ""),
      Query("t", "aa", "a", "", "", ""),
      Query("t", "a", "aa", "a", "=", "7"),
      Query("t", "a;", "aa", "", "", ""),
      Query("t", "a", "aa", "a", "~", "7") }

\* the form values of the owner's requests under the workload of filters: a
\* column pair of the long table, a filter without a column, a filter whose
\* value holds a quote and a comment marker, a filter whose value is a pattern
FilterQueries ==
    { Query("w", "a", "aa", "", "", ""),
      Query("t", "a", "aa", "", "=", "7"),
      Query("t", "a", "aa", "a", "=", "' OR 1=1 --"),
      Query("t", "a", "aa", "a", "LIKE", "%") }

FilterRequests ==
    [requester : Owners, owner : Owners, name : GoodNames, query : FilterQueries,
     urlOK : {TRUE}]

\* the concurrent requests: anonymous requests for one column pair
RaceRequests ==
    [requester : {""}, owner : Owners, name : GoodNames,
     query : {Query("t", "a", "aa", "", "", "")}, urlOK : {TRUE}]

VisRequests ==
    IF workload = "visrace" THEN RaceRequests
    ELSE IF workload = "filters" THEN FilterRequests
    ELSE [requester : Requesters, owner : Owners, name : GoodNames, query : VisQueries,
          urlOK : BOOLEAN]

\* com.ValidatePGTable on a column name
ValidatePGTable(col) == col \in {"a", "aa", "t", "u", "w", "zz"}

WhereTypes == {"LIKE", "=", "!=", "<", "<=", ">", ">="}

\* lines 1013-1058: do the column names and the WHERE type pass
visValid(q) ==
    /\ q.xcol # "" => ValidatePGTable(q.xcol)
    /\ q.ycol # "" => ValidatePGTable(q.ycol)
    /\ q.wcol # "" => ValidatePGTable(q.wcol)
    /\ q.wtype \in WhereTypes \cup {""}

\* visData putting the filter value between quotes
visWhereClauses_quoted(q) ==
    IF q.wval # "" /\ q.wtype # ""
    THEN << [Column |-> q.wcol, Type |-> q.wtype, Value |-> "'" \o q.wval \o "'"] >>
    ELSE << >>

\* lines 1064-1072: the filter clauses handed to the query engine
visWhereClauses(q) ==
    IF q.wval # "" /\ q.wtype # ""
    THEN << [Column |-> q.wcol, Type |-> q.wtype, Value |-> q.wval] >>
    ELSE << >>

\* lines 1064-1072: the filter value that enters the cache key
visWVal(q) == IF q.wval # "" /\ q.wtype # "" THEN q.wval ELSE ""

\* lines 1154-1160: the filter clauses visData hands to the query engine; the
\* full dump takes none
visHanded(q) == IF q.xcol # "" /\ q.ycol # "" THEN visWhereClauses(q) ELSE << >>

\* the cache key with the session's user name hashed in on the public branch too
visCacheKey_perUser(loggedInUser, userName, dbName, q) ==
    IF loggedInUser # userName
    THEN "visdat-pub-" \o Md5Hex(loggedInUser \o "-" \o userName \o "/" \o dbName \o "/"
                                 \o q.table \o q.xcol \o q.ycol \o q.wcol \o q.wtype
                                 \o visWVal(q))
    ELSE "visdat-" \o Md5Hex(loggedInUser \o "-" \o userName \o "/" \o dbName \o "/"
                             \o q.table \o q.xcol \o q.ycol \o q.wcol \o q.wtype
                             \o visWVal(q))

\* lines 1095-1105: the cache key
visCacheKey(loggedInUser, userName, dbName, q) ==
    IF loggedInUser # userName
    THEN "visdat-pub-" \o Md5Hex(userName \o "/" \o dbName \o "/" \o q.table \o q.xcol
                                 \o q.ycol \o q.wcol \o q.wtype \o visWVal(q))
    ELSE "visdat-" \o Md5Hex(loggedInUser \o "-" \o userName \o "/" \o dbName \o "/"
                             \o q.table \o q.xcol \o q.ycol \o q.wcol \o q.wtype
                             \o visWVal(q))

\* lines 1086-1087: the identity visData checks access with
visResolve(req) == CheckUserDBAccess(req.requester, req.owner, req.name)

\* lines 1138-1152: the table visData selects
visTable(data, requestedTable) ==
    IF requestedTable # "" /\ IsTable(data, requestedTable)
    THEN requestedTable ELSE TablesOf(data)[1]

\* visData asking the query engine for twice as many rows
visQuery_uncapped(data, requestedTable, dbTable, q) ==
    IF q.xcol # "" /\ q.ycol # ""
    THEN ReadSQLiteDBCols(data, requestedTable, 2 * maxVals, visHanded(q), q.xcol,
                          q.ycol)
    ELSE ReadSQLiteDB(data, requestedTable, 2 * maxVals)

\* lines 1154-1160: the query visData runs
visQuery(data, requestedTable, dbTable, q) ==
    IF q.xcol # "" /\ q.ycol # ""
    THEN ReadSQLiteDBCols(data, requestedTable, maxVals, visHanded(q), q.xcol, q.ycol)
    ELSE ReadSQLiteDB(data, requestedTable, maxVals)

\* lines 1125-1172, once the object is open
visRead(data, q, fault) ==
    IF fault = "tables" \/ ~IsDatabase(data) THEN Silent
    ELSE IF Len(TablesOf(data)) = 0 THEN Silent
    ELSE LET rs == IF fault = "query" THEN RecordSetError("database is locked")
                   ELSE visQuery(data, q.table, visTable(data, q.table), q)
         IN  IF ~rs.ok THEN errorPage(400, rs.text) ELSE Page(JsonBody(rs))

\* lines 1154-1160: the table names visData hands to the query engine
visQueried(data, q, fault) ==
    IF fault = "tables" \/ ~IsDatabase(data) \/ Len(TablesOf(data)) = 0 THEN <<>>
    ELSE <<q.table>>

\* the statement the engine prepares: identifiers are written into the text,
\* the value of a filter clause is a parameter
QueryText(table, q, clauses) ==
    "SELECT " \o (IF q.xcol # "" /\ q.ycol # "" THEN q.xcol \o ", " \o q.ycol ELSE "*")
    \o " FROM " \o table
    \o (IF clauses = << >> THEN ""
        ELSE " WHERE " \o clauses[1].Column \o " " \o clauses[1].Type \o " ?")
    \o " LIMIT ?"

\* the values the engine binds to the parameters of the filter clauses
QueryParams(clauses) == [i \in 1..Len(clauses) |-> clauses[i].Value]

\* the query of a run as the bookkeeping fields record it
Asked(r, q) ==
    IF r.queried = << >> THEN r
    ELSE [r EXCEPT !.clauses = visHanded(q),
                   !.sql = QueryText(r.queried[1], q, visHanded(q)),
                   !.params = QueryParams(visHanded(q))]

\* lines 1088-1091: the answer to an access error
visRefused(res) == errorPage(400, res.text)

VisIdle == [pc |-> "idle", requester |-> "", owner |-> "", name |-> "", query |-> NoQuery,
            key |-> "", rec |-> 0, bucket |-> "", id |-> "", publicAtCheck |-> {},
            lookupErr |-> FALSE]

VisResp(v, page) ==
    [NoResp EXCEPT !.handler = "vis", !.requester = v.requester, !.owner = v.owner,
                   !.name = v.name, !.query = v.query, !.status = page.status,
                   !.msg = page.msg, !.body = page.body, !.key = v.key, !.rec = v.rec,
                   !.recPublic = v.rec \in v.publicAtCheck]

\* indexes of the records that are public
PublicRecords == {i \in 1..Len(meta) : meta[i].public}

\* lines 992-1105: form values, session, access check, cache key
visStart(w) ==
    /\ workload \in {"vis", "visrace", "filters"}
    /\ UploadsInFlight = 0
    /\ Ready
    /\ vis[w].pc = "idle"
    /\ \E req \in VisRequests :
         \E res \in visResolve(req) :
            LET v == [VisIdle EXCEPT !.requester = req.requester, !.owner = req.owner,
                                      !.name = req.name, !.query = req.query,
                                      !.rec = res.rec, !.bucket = res.bucket,
                                      !.id = res.id, !.publicAtCheck = PublicRecords]
            IN
            IF ~req.urlOK
            THEN resp' = BadURL("vis") /\ UNCHANGED vis
            ELSE IF ~visValid(req.query)
            THEN resp' = VisResp([v EXCEPT !.rec = 0], Silent) /\ UNCHANGED vis
            ELSE IF ~res.ok
            THEN /\ resp' = [VisResp(v, visRefused(res)) EXCEPT !.err = res.kind]
                 /\ UNCHANGED vis
            ELSE /\ vis' = [vis EXCEPT ![w] =
                               [v EXCEPT !.pc = "lookup",
                                         !.key = visCacheKey(req.requester, req.owner,
                                                             req.name, req.query)]]
                 /\ UNCHANGED resp
    /\ UNCHANGED <<meta, objects, cache, up, workload, removed, sessions, users, reg, prefs>>

\* visData answering a failed lookup with an error page
visLookup_strict(w) ==
    /\ Ready
    /\ vis[w].pc = "lookup"
    /\ \E cacheOK \in BOOLEAN :
          IF cacheOK /\ vis[w].key \in DOMAIN cache
          THEN /\ resp' = [VisResp(vis[w], Page(cache[vis[w].key].body))
                              EXCEPT !.cached = TRUE, !.src = cache[vis[w].key].src,
                                     !.bodyQuery = cache[vis[w].key].query,
                                     !.srcPublic = cache[vis[w].key].src
                                                      \in vis[w].publicAtCheck]
               /\ vis' = [vis EXCEPT ![w] = VisIdle]
          ELSE IF ~cacheOK
          THEN /\ resp' = [VisResp(vis[w], errorPage(500, "Error retrieving page data from cache"))
                              EXCEPT !.cacheErr = {"lookup"}]
               /\ vis' = [vis EXCEPT ![w] = VisIdle]
          ELSE /\ vis' = [vis EXCEPT ![w].pc = "read"]
               /\ UNCHANGED resp
    /\ UNCHANGED <<meta, objects, cache, up, workload, removed, sessions, users, reg, prefs>>

\* lines 1107-1117: a cached response is sent as it is; a failed lookup is a miss
visLookup(w) ==
    /\ Ready
    /\ vis[w].pc = "lookup"
    /\ \E cacheOK \in BOOLEAN :
          IF cacheOK /\ vis[w].key \in DOMAIN cache
          THEN /\ resp' = [VisResp(vis[w], Page(cache[vis[w].key].body))
                              EXCEPT !.cached = TRUE, !.src = cache[vis[w].key].src,
                                     !.bodyQuery = cache[vis[w].key].query,
                                     !.srcPublic = cache[vis[w].key].src
                                                      \in vis[w].publicAtCheck]
               /\ vis' = [vis EXCEPT ![w] = VisIdle]
          ELSE /\ vis' = [vis EXCEPT ![w].pc = "read", ![w].lookupErr = ~cacheOK]
               /\ UNCHANGED resp
    /\ UNCHANGED <<meta, objects, cache, up, workload, removed, sessions, users, reg, prefs>>

\* com.CacheData(key, body, CacheTime): the cache server evicts when it is full
CacheData(key, entry) ==
    {[k \in (DOMAIN cache \ drop) \cup {key} |-> IF k = key THEN entry ELSE cache[k]] :
        drop \in {d \in SUBSET (DOMAIN cache \ {key}) :
                    Cardinality((DOMAIN cache \ d) \cup {key}) <= MaxCache
                    /\ (Cardinality(DOMAIN cache \cup {key}) <= MaxCache => d = {})
                    /\ Cardinality(d) <= 1}}

\* lines 1119-1182: open the object, run the query, cache and send the result
visCompute(w) ==
    /\ Ready
    /\ vis[w].pc = "read"
    /\ \E fault \in VisFaults, cacheOK \in BOOLEAN :
          IF ~CanOpen(vis[w].bucket, vis[w].id, fault \notin OpenFaults)
          THEN /\ resp' = [Ran(VisResp(vis[w], Silent), "open", <<>>) EXCEPT
                                !.cacheErr = IF vis[w].lookupErr THEN {"lookup"} ELSE {}]
               /\ UNCHANGED cache
          ELSE LET data == ObjectAt(vis[w].bucket, vis[w].id)
                   page == visRead(data, vis[w].query, fault)
                   r == Asked(Ran([VisResp(vis[w], page) EXCEPT
                                      !.opened = 1, !.src = vis[w].rec,
                                      !.bodyQuery = vis[w].query,
                                      !.srcPublic = vis[w].rec \in vis[w].publicAtCheck],
                                  fault, visQueried(data, vis[w].query, fault)),
                              vis[w].query)
               IN  /\ resp' = [r EXCEPT !.cacheErr =
                                    (IF vis[w].lookupErr THEN {"lookup"} ELSE {})
                                    \cup (IF page.body.kind = "json" /\ ~cacheOK
                                          THEN {"write"} ELSE {})]
                   /\ IF page.body.kind = "json" /\ cacheOK
                      THEN cache' \in CacheData(vis[w].key,
                                        [body |-> page.body, src |-> vis[w].rec,
                                         forOwner |-> vis[w].requester = vis[w].owner,
                                         query |-> vis[w].query, writer |-> w])
                      ELSE UNCHANGED cache
    /\ vis' = [vis EXCEPT ![w] = VisIdle]
    /\ UNCHANGED <<meta, objects, up, workload, removed, sessions, users, reg, prefs>>

(***************************************************************************)
(* auth0CallbackHandler.                                                   *)
(***************************************************************************)
\* the identities the login provider reports: a known one and a new one, each
\* with an email address the user store has or has not
Profiles == [auth0id : {"auth0|a", "auth0|n"},
             email : {"alice@example.org", "new@example.org"}]

\* lines 55-90, 95-99: the calls of auth0CallbackHandler that can fail
CallbackFaults == {"none", "exchange", "userinfo", "lookup", "email"}

\* com.UserNameFromAuth0ID(auth0ID): the name of the account, "" without one
UserNameFromAuth0ID(auth0ID) ==
    IF \E a \in users : a.auth0id = auth0ID
    THEN (CHOOSE a \in users : a.auth0id = auth0ID).name
    ELSE ""

\* com.CheckEmailExists(email)
CheckEmailExists(email) == \E a \in users : a.email = email

\* lines 108-113: the session of the registration page
RegistrationSession(auth0ID, email) ==
    [kind |-> "registration", UserName |-> "", auth0id |-> auth0ID, email |-> email]

\* lines 121-123: the login session
LoginSession(userName) ==
    [kind |-> "login", UserName |-> userName, auth0id |-> "", email |-> ""]

Redirected(target) == [status |-> 307, msg |-> target, body |-> NoBody]

\* lines 41-128: the page the run answers with, the sessions it adds and the
\* targets it redirects to.  The branch of a new user ends at line 118 without
\* a return: the run goes on to lines 120-127 with the empty user name.  The
\* page is the one of the first redirect: the second writes to a response that
\* has its header
auth0Callback(profile, fault) ==
    LET userName == UserNameFromAuth0ID(profile.auth0id)
        Out(page, added, redirects) ==
            [page |-> page, added |-> added, redirects |-> redirects]
    IN  CASE fault = "exchange" -> Out(errorPage(500, "Login failed"), << >>, << >>)
          [] fault = "userinfo" -> Out(errorPage(500, "userinfo"), << >>, << >>)
          [] fault = "lookup" -> Out(errorPage(500, "UserNameFromAuth0ID"), << >>, << >>)
          [] userName = "" /\ fault = "email" ->
                Out(errorPage(500, "Email check failed"), << >>, << >>)
          [] userName = "" /\ CheckEmailExists(profile.email) ->
                Out(errorPage(409, "Can't create new account: Your email address is already associated with a different account in our system."),
                    << >>, << >>)
          [] userName = "" ->
                Out(Redirected("/selectusername"),
                    << RegistrationSession(profile.auth0id, profile.email),
                       LoginSession(userName) >>,
                    << "/selectusername", "/" \o userName >>)
          [] OTHER ->
                Out(Redirected("/" \o userName), << LoginSession(userName) >>,
                    << "/" \o userName >>)

\* lines 41-128
auth0CallbackHandler ==
    /\ workload \in {"accounts", "prefs"}
    /\ Ready
    /\ \E profile \in Profiles, fault \in CallbackFaults :
          LET out == auth0Callback(profile, fault) IN
          /\ sessions' = sessions \cup {out.added[i] : i \in 1..Len(out.added)}
          /\ resp' = [NoResp EXCEPT !.handler = "callback", !.status = out.page.status,
                                    !.msg = out.page.msg, !.body = out.page.body,
                                    !.fault = fault, !.profile = profile,
                                    !.added = out.added, !.redirects = out.redirects]
    /\ UNCHANGED <<meta, objects, cache, up, vis, workload, removed, users, reg, prefs>>

(***************************************************************************)
(* createUserHandler.                                                      *)
(***************************************************************************)
\* a createUserHandler worker between runs
RegIdle == [pc |-> "idle", sess |-> NoSession, userName |-> ""]

\* the sessions a browser can hold: the login session auth0CallbackHandler adds
\* after its first redirect (line 124) is in the store but its cookie is set on
\* a response whose header is written
Cookies == {s \in sessions : ~(s.kind = "login" /\ s.UserName = "")}

\* values of the "username" form field: none, a free name, one that fails
\* validation, a reserved one, a taken one
UserNameInputs == {"", "carol", "c*rol", "admin", "alice"}

\* com.ValidateUser(userName)
ValidateUser(userName) == userName \in {"carol", "admin", "alice", "bob"}

\* com.ReservedUsernamesCheck(userName): is the name free to take
ReservedUsernamesCheck(userName) == userName # "admin"

\* com.CheckUserExists(userName)
CheckUserExists(userName) == \E a \in users : a.name = userName

\* lines 173, 208, 219: the calls of createUserHandler that can fail
CreateFaults == {"none", "form", "check", "add"}

\* the page that asks for a user name
selectUsernamePage == [status |-> 200, msg |-> "selectusername", body |-> NoBody]

\* the checks leaving the session in place when the name is taken
createUserChecks_keepsSession(sess, userName, fault) ==
    LET Out(page, removes) == [page |-> page, removes |-> removes] IN
    CASE sess = NoSession -> Out(errorPage(400, "Invalid user creation session"), FALSE)
      [] sess.kind # "registration" ->
            Out(errorPage(400, "Invalid user creation session"), FALSE)
      [] sess.auth0id = "" -> Out(errorPage(400, "Invalid user creation id"), FALSE)
      [] sess.email = "" -> Out(errorPage(400, "Invalid user creation email"), FALSE)
      [] fault = "form" ->
            Out(errorPage(400, "Error when parsing user creation data"), FALSE)
      [] userName = "" -> Out(selectUsernamePage, FALSE)
      [] ~ValidateUser(userName) -> Out(errorPage(400, "Username failed validation"), TRUE)
      [] ~ReservedUsernamesCheck(userName) -> Out(errorPage(400, "reserved"), TRUE)
      [] fault = "check" -> Out(errorPage(500, "Username check failed"), TRUE)
      [] CheckUserExists(userName) ->
            Out(errorPage(409, "That username is already taken"), FALSE)
      [] OTHER -> Out(Passed, FALSE)

\* lines 131-215: the checks of createUserHandler in the code's order: the page
\* the run answers with and whether it removed the session, or Passed
createUserChecks(sess, userName, fault) ==
    LET Out(page, removes) == [page |-> page, removes |-> removes] IN
    CASE sess = NoSession -> Out(errorPage(400, "Invalid user creation session"), FALSE)
      [] sess.kind # "registration" ->
            Out(errorPage(400, "Invalid user creation session"), FALSE)
      [] sess.auth0id = "" -> Out(errorPage(400, "Invalid user creation id"), FALSE)
      [] sess.email = "" -> Out(errorPage(400, "Invalid user creation email"), FALSE)
      [] fault = "form" ->
            Out(errorPage(400, "Error when parsing user creation data"), FALSE)
      [] userName = "" -> Out(selectUsernamePage, FALSE)
      [] ~ValidateUser(userName) -> Out(errorPage(400, "Username failed validation"), TRUE)
      [] ~ReservedUsernamesCheck(userName) -> Out(errorPage(400, "reserved"), TRUE)
      [] fault = "check" -> Out(errorPage(500, "Username check failed"), TRUE)
      [] CheckUserExists(userName) ->
            Out(errorPage(409, "That username is already taken"), TRUE)
      [] OTHER -> Out(Passed, FALSE)

\* com.AddUser(auth0ID, userName, password, email): the user store holds one
\* account per user name
CanAddUser(userName) == ~\E a \in users : a.name = userName

\* session.Remove and session.Add as entries of the bookkeeping field
Removed(sess) == [op |-> "remove", sess |-> sess]
Added(sess) == [op |-> "add", sess |-> sess]

CreateResp(sess, userName, fault, page, ops) ==
    [NoResp EXCEPT !.handler = "createuser", !.status = page.status, !.msg = page.msg,
                   !.body = page.body, !.fault = fault, !.sess = sess, !.form = userName,
                   !.ops = ops]

\* lines 131-215: session, form, user name checks
createUserBegin(w) ==
    /\ workload = "accounts"
    /\ Ready
    /\ reg[w].pc = "idle"
    /\ \E sess \in Cookies \cup {NoSession}, userName \in UserNameInputs,
          fault \in CreateFaults \ {"add"} :
          LET out == createUserChecks(sess, userName, fault) IN
          IF out.page = Passed
          THEN /\ reg' = [reg EXCEPT ![w] = [pc |-> "add", sess |-> sess,
                                             userName |-> userName]]
               /\ UNCHANGED <<resp, sessions>>
          ELSE /\ resp' = CreateResp(sess, userName, fault, out.page,
                                     IF out.removes THEN << Removed(sess) >> ELSE << >>)
               /\ sessions' = IF out.removes THEN sessions \ {sess} ELSE sessions
               /\ UNCHANGED reg
    /\ UNCHANGED <<meta, objects, cache, up, vis, workload, removed, users, prefs>>

\* lines 217-240: add the user, remove the registration session, log in
createUserAdd(w) ==
    /\ Ready
    /\ reg[w].pc = "add"
    /\ \E fault \in {"none", "add"} :
          LET sess == reg[w].sess
              userName == reg[w].userName
          IN  IF fault = "add" \/ ~CanAddUser(userName)
              THEN /\ resp' = CreateResp(sess, userName, "add",
                                         errorPage(500, "Something went wrong during user creation"),
                                         << Removed(sess) >>)
                   /\ sessions' = sessions \ {sess}
                   /\ UNCHANGED users
              ELSE /\ users' = users \cup {[name |-> userName, auth0id |-> sess.auth0id,
                                            email |-> sess.email]}
                   /\ sessions' = (sessions \ {sess}) \cup {LoginSession(userName)}
                   /\ resp' = CreateResp(sess, userName, fault,
                                         Redirected("/" \o userName),
                                         << Removed(sess), Added(LoginSession(userName)) >>)
    /\ reg' = [reg EXCEPT ![w] = RegIdle]
    /\ UNCHANGED <<meta, objects, cache, up, vis, workload, removed, prefs>>

(***************************************************************************)
(* prefHandler.  A form value is the sequence of its characters.           *)
(***************************************************************************)
\* values of the "maxrows" form field: none, the ends of the range, values
\* below and above it, a negative one, a fraction, a word
MaxRowsInputs == { << >>, <<"1">>, <<"5", "0", "0">>, <<"0">>, <<"5", "0", "1">>,
                   <<"-", "5">>, <<"1", ".", "5">>, <<"a">> }

Digit(c) == CASE c = "0" -> 0 [] c = "1" -> 1 [] c = "2" -> 2 [] c = "3" -> 3
              [] c = "4" -> 4 [] c = "5" -> 5 [] c = "6" -> 6 [] c = "7" -> 7
              [] c = "8" -> 8 [] c = "9" -> 9

IsDigits(s) ==
    /\ Len(s) > 0
    /\ \A i \in 1..Len(s) : s[i] \in {"0", "1", "2", "3", "4", "5", "6", "7", "8", "9"}

RECURSIVE DigitsValue(_)
DigitsValue(s) ==
    IF s = << >> THEN 0 ELSE 10 * DigitsValue(SubSeq(s, 1, Len(s) - 1)) + Digit(s[Len(s)])

\* a value without its sign
Unsigned(s) == IF Len(s) > 0 /\ s[1] \in {"+", "-"} THEN Tail(s) ELSE s

\* the "numeric" tag of the validator: a sign, digits, a fraction
IsNumeric(s) ==
    LET body == Unsigned(s) IN
    \/ IsDigits(body)
    \/ \E k \in 1..Len(body) :
          /\ body[k] = "."
          /\ IsDigits(SubSeq(body, 1, k - 1))
          /\ IsDigits(SubSeq(body, k + 1, Len(body)))

\* com.Validate.Var(maxRows, "required,numeric,min=1,max=500") on a string:
\* the validator applies min and max to the length of a string
ValidMaxRows(s) == s # << >> /\ IsNumeric(s) /\ Len(s) >= 1 /\ Len(s) <= 500

\* strconv.Atoi(maxRows): a sign and digits
Atoi(s) ==
    IF ~IsDigits(Unsigned(s)) THEN [ok |-> FALSE, n |-> 0]
    ELSE [ok |-> TRUE,
          n |-> IF s[1] = "-" THEN 0 - DigitsValue(Unsigned(s))
                ELSE DigitsValue(Unsigned(s))]

\* lines 575, 597: the calls of prefHandler that can fail
PrefFaults == {"none", "form", "store"}

\* the preferences page
prefPage == [status |-> 200, msg |-> "pref", body |-> NoBody]

\* lines 553-611: the page the run answers with, whether it removes the session
\* and the number it stores (stores FALSE: none)
pref(sess, maxRows, fault) ==
    LET Out(page, removes, stores, n) ==
            [page |-> page, removes |-> removes, stores |-> stores, n |-> n]
    IN  CASE sess = NoSession ->
                Out(errorPage(500, "Error: Must be logged in to view that page."),
                    FALSE, FALSE, 0)
          [] sess.kind # "login" ->
                Out(errorPage(500, "Error: Must be logged in to view that page."),
                    TRUE, FALSE, 0)
          [] fault = "form" ->
                Out(errorPage(400, "Error when parsing preference data"), FALSE, FALSE, 0)
          [] maxRows = << >> -> Out(prefPage, FALSE, FALSE, 0)
          [] ~ValidMaxRows(maxRows) ->
                Out(errorPage(400, "Error when parsing preference data"), FALSE, FALSE, 0)
          [] ~Atoi(maxRows).ok ->
                Out(errorPage(400, "Error when parsing preference data"), FALSE, FALSE, 0)
          [] fault = "store" ->
                Out(errorPage(500, "Error when updating preferences"), FALSE, FALSE, 0)
          [] OTHER ->
                Out(Redirected("/" \o sess.UserName), FALSE, TRUE, Atoi(maxRows).n)

\* com.SetPrefUserMaxRows(loggedInUser, maxRowsNum); by is the session of the
\* request that stored the number
SetPrefUserMaxRows(user, n, sess) ==
    [u \in DOMAIN prefs \cup {user} |->
        IF u = user THEN [rows |-> n, by |-> sess] ELSE prefs[u]]

\* lines 549-612
prefHandler ==
    /\ workload = "prefs"
    /\ Ready
    /\ \E sess \in Cookies \cup {NoSession}, maxRows \in MaxRowsInputs,
          fault \in PrefFaults :
          LET out == pref(sess, maxRows, fault) IN
          /\ resp' = [NoResp EXCEPT !.handler = "pref", !.status = out.page.status,
                                    !.msg = out.page.msg, !.body = out.page.body,
                                    !.fault = fault, !.sess = sess, !.maxrows = maxRows,
                                    !.ops = IF out.removes THEN << Removed(sess) >>
                                            ELSE << >>]
          /\ sessions' = IF out.removes THEN sessions \ {sess} ELSE sessions
          /\ prefs' = IF out.stores THEN SetPrefUserMaxRows(sess.UserName, out.n, sess)
                       ELSE prefs
    /\ UNCHANGED <<meta, objects, cache, up, vis, workload, removed, users, reg>>

(***************************************************************************)
(* Form values (package common).                                           *)
(***************************************************************************)
\* values of the "public" form field a request can carry; "" is the absent one
PubFormValues == PublicInputs \cup {"", "false", "T"}

\* GetPub(r): the flag and the error; an error of "" is nil
GetPub_absentIsPublic(val) ==
    IF val = "" THEN [pub |-> TRUE, err |-> "No public/private value present"]
    ELSE IF ~ParseBoolOK(val)
    THEN [pub |-> FALSE, err |-> "strconv.ParseBool: parsing " \o val \o ": invalid syntax"]
    ELSE [pub |-> ParseBool(val), err |-> ""]

\* GetPub(r): the flag and the error; an error of "" is nil
GetPub(val) ==
    IF val = "" THEN [pub |-> FALSE, err |-> "No public/private value present"]
    ELSE IF ~ParseBoolOK(val)
    THEN [pub |-> FALSE, err |-> "strconv.ParseBool: parsing " \o val \o ": invalid syntax"]
    ELSE [pub |-> ParseBool(val), err |-> ""]

\* url.QueryUnescape on the values explored: "%69" is "i", "%3F" is "?", "%zz"
\* is no escape
QueryUnescape(v) ==
    CASE v = "al%69ce" -> [val |-> "alice", err |-> ""]
      [] v = "d%3F" -> [val |-> "d?", err |-> ""]
      [] v = "%zz" -> [val |-> "", err |-> "invalid URL escape \"%zz\""]
      [] OTHER -> [val |-> v, err |-> ""]

\* ValidateFileName, ValidateFolder, ValidateCommitID, ValidateUserFilename
ValidateFileName(fileName) == fileName \in GoodNames
ValidateFolder(folder) == folder \in {"/", "/f"}
ValidateCommitID(c) == c \in {"c1"}
ValidateUserFilename(owner, fileName) == ValidateUser(owner) /\ ValidateFileName(fileName)

\* what an extractor returns: the values, in order, and the error ("" is nil)
Got(vals, err) == [vals |-> vals, err |-> err]

\* lines 15-35
GetDatabase(r) ==
    LET u == QueryUnescape(r.dbname) IN
    IF u.err # "" THEN Got(<< "" >>, u.err)
    ELSE IF ~ValidateFileName(u.val) THEN Got(<< "" >>, "Invalid database name")
    ELSE Got(<< u.val >>, "")

\* lines 38-64
GetFolder(r) ==
    LET u == QueryUnescape(r.folder) IN
    IF r.folder = "" THEN Got(<< "" >>, "")
    ELSE IF u.err # "" THEN Got(<< "" >>, u.err)
    ELSE IF ~ValidateFolder(u.val) THEN Got(<< "" >>, "invalid folder")
    ELSE Got(<< u.val >>, "")

\* lines 87-98
GetFormCommit(r) ==
    IF r.commit = "" THEN Got(<< "" >>, "")
    ELSE IF ~ValidateCommitID(r.commit)
    THEN Got(<< "" >>, "Invalid database commit: '" \o r.commit \o "'")
    ELSE Got(<< r.commit >>, "")

\* lines 306-326
GetTable(r) ==
    IF r.table # "" /\ ~ValidatePGTable(r.table) THEN Got(<< "" >>, "Invalid table name")
    ELSE Got(<< r.table >>, "")

\* lines 352-378
GetUsername(r) ==
    LET u == QueryUnescape(r.username) IN
    IF r.username = "" THEN Got(<< "" >>, "")
    ELSE IF u.err # "" THEN Got(<< "" >>, u.err)
    ELSE IF ~ValidateUser(u.val) THEN Got(<< "" >>, "invalid user name")
    ELSE Got(<< u.val >>, "")

\* lines 198-226
GetOD(ignore_leading, r) ==
    IF Len(r.path) < 3 + ignore_leading THEN Got(<< "", "" >>, "Invalid URL")
    ELSE LET owner == r.path[2 + ignore_leading]
             fileName == r.path[3 + ignore_leading]
         IN  IF ~ValidateUserFilename(owner, fileName)
             THEN Got(<< "", "" >>, "Invalid owner or database name")
             ELSE Got(<< owner, fileName >>, "")

\* lines 229-244
GetODC(ignore_leading, r) ==
    LET od == GetOD(ignore_leading, r)
        c == GetFormCommit(r)
    IN  IF od.err # "" THEN Got(<< "", "", "" >>, od.err)
        ELSE IF c.err # "" THEN Got(<< "", "", "" >>, c.err)
        ELSE Got(<< od.vals[1], od.vals[2], c.vals[1] >>, "")

\* GetODT handing back the owner and the name when the table name fails
GetODT_partial(ignore_leading, r) ==
    LET od == GetOD(ignore_leading, r)
        t == GetTable(r)
    IN  IF od.err # "" THEN Got(<< "", "", "" >>, od.err)
        ELSE IF t.err # "" THEN Got(<< od.vals[1], od.vals[2], "" >>, t.err)
        ELSE Got(<< od.vals[1], od.vals[2], t.vals[1] >>, "")

\* lines 247-262
GetODT(ignore_leading, r) ==
    LET od == GetOD(ignore_leading, r)
        t == GetTable(r)
    IN  IF od.err # "" THEN Got(<< "", "", "" >>, od.err)
        ELSE IF t.err # "" THEN Got(<< "", "", "" >>, t.err)
        ELSE Got(<< od.vals[1], od.vals[2], t.vals[1] >>, "")

\* lines 265-286
GetODTC(ignore_leading, r) ==
    LET od == GetOD(ignore_leading, r)
        t == GetTable(r)
        c == GetFormCommit(r)
    IN  IF od.err # "" THEN Got(<< "", "", "", "" >>, od.err)
        ELSE IF t.err # "" THEN Got(<< "", "", "", "" >>, t.err)
        ELSE IF c.err # "" THEN Got(<< "", "", "", "" >>, c.err)
        ELSE Got(<< od.vals[1], od.vals[2], t.vals[1], c.vals[1] >>, "")

\* lines 175-195
GetFormUDC(r) ==
    LET u == GetUsername(r)
        d == GetDatabase(r)
        c == GetFormCommit(r)
    IN  IF u.err # "" THEN Got(<< "", "", "" >>, u.err)
        ELSE IF d.err # "" THEN Got(<< "", "", "" >>, d.err)
        ELSE IF c.err # "" THEN Got(<< "", "", "" >>, c.err)
        ELSE Got(<< u.vals[1], d.vals[1], c.vals[1] >>, "")

\* lines 329-349
GetUFD(r) ==
    LET u == GetUsername(r)
        f == GetFolder(r)
        d == GetDatabase(r)
    IN  IF u.err # "" THEN Got(<< "", "", "" >>, u.err)
        ELSE IF f.err # "" THEN Got(<< "", "", "" >>, f.err)
        ELSE IF d.err # "" THEN Got(<< "", "", "" >>, d.err)
        ELSE Got(<< u.vals[1], f.vals[1], d.vals[1] >>, "")

\* the composite extractors
Extractors == {"GetOD", "GetODC", "GetODT", "GetODTC", "GetFormUDC", "GetUFD"}

\* the path components that follow the ignored ones, 2 as the handlers pass it
IgnoreLeading == 2

\* the requests explored: a path that is good, too short, or holds a bad name;
\* form values that are absent, good (escaped or not) or bad
ExtractRequests ==
    [path : { <<"", "x", "table", "alice", "d">>, <<"", "x", "table", "alice">>,
              <<"", "x", "table", "alice", "d?">> },
     username : {"", "al%69ce", "al!ce"},
     folder : {"", "/f", "%zz"},
     dbname : {"d", "d%3F"},
     table : {"", "t", "t;"},
     commit : {"", "c1", "c!"}]

Extract(fn, r) ==
    CASE fn = "GetOD" -> GetOD(IgnoreLeading, r)
      [] fn = "GetODC" -> GetODC(IgnoreLeading, r)
      [] fn = "GetODT" -> GetODT(IgnoreLeading, r)
      [] fn = "GetODTC" -> GetODTC(IgnoreLeading, r)
      [] fn = "GetFormUDC" -> GetFormUDC(r)
      [] fn = "GetUFD" -> GetUFD(r)

\* a request whose components one of the composite extractors reads
extract ==
    /\ workload = "forms"
    /\ Ready
    /\ \E fn \in Extractors, r \in ExtractRequests :
          resp' = [NoResp EXCEPT !.handler = fn, !.request = r, !.out = Extract(fn, r)]
    /\ UNCHANGED <<meta, objects, cache, up, vis, workload, removed, sessions, users, reg, prefs>>

\* a request whose "public" form value is read
getPub ==
    /\ workload = "forms"
    /\ Ready
    /\ \E val \in PubFormValues :
          resp' = [NoResp EXCEPT !.handler = "getpub", !.form = val,
                                !.pub = GetPub(val).pub, !.err = GetPub(val).err]
    /\ UNCHANGED <<meta, objects, cache, up, vis, workload, removed, sessions, users, reg, prefs>>

\* a cache entry reaches the end of its time to live
expire ==
    /\ Ready
    /\ \E k \in DOMAIN cache : cache' = [j \in DOMAIN cache \ {k} |-> cache[j]]
    /\ UNCHANGED <<meta, objects, up, vis, resp, workload, removed, sessions, users, reg, prefs>>

\* the owner flips the visibility of one of their databases (metadata store)
SetVisibility ==
    \E owner \in Owners, name \in GoodNames, public \in BOOLEAN :
        /\ Ready
        /\ RecordsOf(owner, name) # {}
        /\ meta' = SetVisibilityOf(owner, name, public)
        /\ meta' # meta
        /\ UNCHANGED <<objects, cache, up, vis, resp, workload, removed, sessions, users, reg, prefs>>

Init ==
    /\ meta = <<>>
    /\ objects = << >>
    /\ cache = << >>
    /\ up = [w \in Uploaders |-> UpIdle]
    /\ vis = [v \in VisWorkers |-> VisIdle]
    /\ resp = NoResp
    /\ workload \in Workloads
    /\ removed = {}
    /\ sessions = {}
    /\ users = Accounts
    /\ reg = [w \in RegWorkers |-> RegIdle]
    /\ prefs = << >>

Next ==
    \/ \E w \in ActiveUploaders : uploadBegin(w)
    \/ \E w \in ActiveUploaders : uploadVersion(w)
    \/ \E w \in ActiveUploaders : uploadGenID(w)
    \/ \E w \in ActiveUploaders : uploadStore(w)
    \/ \E w \in ActiveUploaders : uploadAdd(w)
    \/ \E w \in ActiveUploaders : uploadCrash(w)
    \/ removeVersion
    \/ SetVisibility
    \/ download
    \/ downloadCSV
    \/ tableView
    \/ \E v \in ActiveVis : visStart(v)
    \/ \E v \in ActiveVis : visLookup(v)
    \/ \E v \in ActiveVis : visCompute(v)
    \/ expire
    \/ auth0CallbackHandler
    \/ \E w \in RegWorkers : createUserBegin(w)
    \/ \E w \in RegWorkers : createUserAdd(w)
    \/ prefHandler
    \/ getPub
    \/ extract
    \/ receive

Spec == Init /\ [][Next]_vars


(***************************************************************************)
(* Properties.                                                             *)
(***************************************************************************)
ReadHandlers == {"download", "csv", "table", "vis"}
FileHandlers == {"download", "csv", "table"}

\* the request a response of a file handler answers
ReqOf(r) == [requester |-> r.requester, owner |-> r.owner, name |-> r.name,
             version |-> r.version, table |-> r.query.table, urlOK |-> TRUE]

\* what the requester sees of a response
Observable(r) == <<r.status, r.msg, r.body>>

\* C1: to a requester that is not the owner, the anonymous one included,
\* downloadHandler, downloadCSVHandler, tableViewHandler and visData answer a
\* request the resolver decides on a private record with the access error,
\* opening no object handle, and they send no row or byte computed from a
\* record that was private when the request's access was checked.
C1_PrivateRecordRefused ==
    (resp.handler \in ReadHandlers /\ resp.requester # resp.owner)
    => /\ (resp.rec # 0 /\ ~resp.recPublic)
          => /\ resp.err = "AccessDenied"
             /\ resp.status \in {400, 500}
             /\ resp.body = NoBody
             /\ resp.opened = 0
             /\ resp.src = 0
             /\ ~resp.cached
       /\ (resp.src # 0 /\ (resp.body.kind = "file" \/ resp.body.rows # <<>>))
          => resp.srcPublic

\* C2: no two metadata records of one (owner, database name) carry the same
\* version number, whatever the interleaving of the uploadDataHandler runs.
C2_UniqueVersions ==
    \A i, j \in 1..Len(meta) :
        (i # j /\ meta[i].owner = meta[j].owner /\ meta[i].name = meta[j].name)
        => meta[i].version # meta[j].version

\* C3: when N uploads of one (owner, name) have succeeded, a request for
\* version 0 by the owner is answered from the record of version N, the highest
\* version, and never from the record of an older upload.
C3_DefaultIsHighest ==
    (/\ resp.handler \in FileHandlers
     /\ resp.version = 0
     /\ resp.requester = resp.owner
     /\ resp.msg # "No table name given"
     /\ RecordsOf(resp.owner, resp.name) # {})
    => /\ resp.err = ""
       /\ resp.rec = Max(RecordsOf(resp.owner, resp.name))
       /\ meta[resp.rec].version = Cardinality(RecordsOf(resp.owner, resp.name))
       /\ meta[resp.rec].version = HighestVersion(resp.owner, resp.name)
       /\ resp.src \in {0, resp.rec}

\* C4: when uploads run one after the other, two successive records of one
\* (owner, name) with the same content digest have version numbers v and v + 1
\* (1 and 2 when none existed before) and distinct storage locators.
C4_SuccessiveUploads ==
    workload # "uploads" =>
        \A i \in 1..Len(meta) :
            /\ (i = 1 => meta[i].version = 1)
            /\ (/\ i > 1
                /\ meta[i].owner = meta[i - 1].owner
                /\ meta[i].name = meta[i - 1].name
                /\ meta[i].sha = meta[i - 1].sha)
               => /\ meta[i].version = meta[i - 1].version + 1
                  /\ <<meta[i].bucket, meta[i].id>> # <<meta[i - 1].bucket, meta[i - 1].id>>

\* C5: the cache key visData computes is the same for every requester that is
\* not the owner, and the key computed for the owner is none of those.
C5_KeySharedByNonOwners ==
    (resp.handler = "vis" /\ resp.key # "")
    => /\ resp.requester # resp.owner =>
            \A r \in Requesters \ {resp.owner} :
                visCacheKey(r, resp.owner, resp.name, resp.query) = resp.key
       /\ resp.requester = resp.owner =>
            \A r \in Requesters \ {resp.owner} :
                visCacheKey(r, resp.owner, resp.name, resp.query) # resp.key
       /\ (resp.cached /\ resp.key \in DOMAIN cache) =>
            (resp.requester = resp.owner) = cache[resp.key].forOwner

\* bob is answered from an entry stored under the key of the anonymous requester
C5_Witness ==
    /\ resp.handler = "vis"
    /\ resp.cached
    /\ resp.requester = "bob"
    /\ resp.recPublic
    /\ resp.key \in DOMAIN cache
    /\ ~cache[resp.key].forOwner
    /\ resp.key = visCacheKey("", resp.owner, resp.name, resp.query)

\* C6: every body visData sends to a requester that is not the owner was
\* computed from a record that was public when that request's access was
\* checked.
C6_NonOwnerBodyFromPublicData ==
    (/\ resp.handler = "vis"
     /\ resp.requester # resp.owner
     /\ resp.body.kind = "json")
    => resp.srcPublic

\* C7: a body visData sends was computed for the form values of the request it
\* answers: a request is never answered from the cache entry of a request with
\* another (table, xcol, ycol, wherecol, wheretype, whereval).
C7_KeyVariesWithQuery ==
    (resp.handler = "vis" /\ resp.body.kind = "json")
    => resp.bodyQuery = resp.query

\* the bytes of the object a response was computed from
SrcData(r) == ObjectAt(meta[r.src].bucket, meta[r.src].id)

\* the table a table view reads
TableRead(r) ==
    IF r.query.table = "" THEN TablesOf(SrcData(r))[1] ELSE r.query.table

\* the request of a response is a query on an existing table that selects no row
SelectsNoRow(r) ==
    /\ r.src # 0
    /\ r.fault = "none"
    /\ ~r.cached
    /\ r.handler = "table" =>
          /\ IsTable(SrcData(r), TableRead(r))
          /\ RowsOf(SrcData(r), TableRead(r)) = << >>
    /\ r.handler = "vis" =>
          /\ IsTable(SrcData(r), r.query.table)
          /\ r.status = 200
          /\ IF r.query.xcol # "" /\ r.query.ycol # ""
             THEN Filter(RowsOf(SrcData(r), r.query.table), visWhereClauses(r.query)) = << >>
             ELSE RowsOf(SrcData(r), r.query.table) = << >>

\* C8: a query on an existing table that selects no row is answered by a
\* success whose body is a RowSet with an empty rows sequence, rowCount 0 and
\* totalRows the size of the table.
C8_EmptyResultWellFormed ==
    (resp.handler \in {"table", "vis"} /\ SelectsNoRow(resp))
    => /\ resp.status = 200
       /\ resp.body.kind = "json"
       /\ resp.body.rows = << >>
       /\ resp.body.rowCount = 0
       /\ resp.body.totalRows =
             Count(RowsOf(SrcData(resp),
                        IF resp.handler = "table" THEN TableRead(resp)
                        ELSE resp.query.table))

\* C9: a request that names a version other than 0 that is not stored, for an
\* (owner, name) that has versions, ends in the version-not-found error in
\* downloadHandler, tableViewHandler and downloadCSVHandler (given a table
\* name): no other version is resolved and no data is sent.
C9_MissingVersionRefused ==
    (/\ resp.handler \in FileHandlers
     /\ resp.version # 0
     /\ resp.msg # "No table name given"
     /\ RecordsOf(resp.owner, resp.name) # {}
     /\ resp.version \notin VersionsOf(resp.owner, resp.name))
    => /\ resp.err = "VersionNotFound"
       /\ resp.status = 500
       /\ resp.msg = ErrorText("VersionNotFound")
       /\ resp.body = NoBody
       /\ resp.rec = 0
       /\ resp.src = 0
       /\ resp.opened = 0

\* tableViewHandler refuses a version beyond the stored ones
C9_Witness ==
    /\ resp.handler = "table"
    /\ resp.version # 0
    /\ RecordsOf(resp.owner, resp.name) # {}
    /\ resp.version \notin VersionsOf(resp.owner, resp.name)
    /\ resp.err = "VersionNotFound"

\* the response of the handler of r to the request of r when no record exists
NotFoundResponse(r) ==
    CASE r.handler = "download" ->
            downloadHandler(ReqOf(r), ResolveError("NotFound", 0), "none")
      [] r.handler = "csv" ->
            downloadCSVHandler(ReqOf(r), ResolveError("NotFound", 0), "none")
      [] r.handler = "table" ->
            tableViewHandler(ReqOf(r), ResolveError("NotFound", 0), "none", AnonMaxRows)
      [] OTHER -> [NoResp EXCEPT !.status = visRefused(ResolveError("NotFound", 0)).status,
                                 !.msg = visRefused(ResolveError("NotFound", 0)).msg]

Locators == {<<meta[i].bucket, meta[i].id>> : i \in 1..Len(meta)}

\* C11: the storage locator of every metadata record names an object that is
\* stored, in every state, also after an upload failed or died at any step: a
\* failure between the store and the insert leaves an object no record names.
C11_NoDanglingLocator == Locators \subseteq DOMAIN objects

\* a record is stored next to an object that no record names
C11_Witness ==
    /\ meta # <<>>
    /\ DOMAIN objects \ Locators # {}

\* C12: no two metadata records carry the same storage locator, and no upload
\* is about to store under an object id that already holds an object.
C12_LocatorsNeverShared ==
    /\ \A i, j \in 1..Len(meta) :
          i # j => <<meta[i].bucket, meta[i].id>> # <<meta[j].bucket, meta[j].id>>
    /\ \A w \in Uploaders :
          up[w].pc = "store" => <<up[w].bucket, up[w].id>> \notin DOMAIN objects

\* the response answers a run that opened the record's object and met no failure
ReadRun(r) == r.src # 0 /\ r.opened = 1 /\ r.fault = "none" /\ ~r.cached

\* C13: tableViewHandler and visData answer a request that names a table the
\* opened database does not have with an error and no body, and hand no table
\* name to the query engine.
C13_UnknownTableRefused ==
    (/\ resp.handler \in {"table", "vis"}
     /\ ReadRun(resp)
     /\ resp.query.table # ""
     /\ ~IsTable(SrcData(resp), resp.query.table))
    => /\ resp.status = 400
       /\ resp.body = NoBody
       /\ resp.queried = <<>>

\* the table list of the database is empty, or the list or the table data
\* cannot be read
Unreadable(r) ==
    \/ r.fault \in {"tables", "query", "count"}
    \/ Len(TablesOf(SrcData(r))) = 0
    \/ r.handler = "csv" /\ ~IsTable(SrcData(r), r.query.table)

\* C14: tableViewHandler, visData and downloadCSVHandler end a request against
\* a database whose table list is empty, or whose table list or table data
\* cannot be read, with an error response, never with a success.
C14_UnreadableIsAnError ==
    (/\ resp.handler \in {"table", "vis", "csv"}
     /\ resp.src # 0
     /\ resp.opened = 1
     /\ Unreadable(resp))
    => /\ resp.status \in {400, 500}
       /\ resp.msg # ""
       /\ resp.body = NoBody

\* C15: tableViewHandler and visData hand the query engine only names of the
\* table list, and for a request that names no table the first name of the list.
C15_DefaultIsFirstTable ==
    (/\ resp.handler \in {"table", "vis"}
     /\ ReadRun(resp)
     /\ Len(TablesOf(SrcData(resp))) > 0)
    => /\ \A k \in 1..Len(resp.queried) : IsTable(SrcData(resp), resp.queried[k])
       /\ resp.query.table = "" => resp.queried = <<TablesOf(SrcData(resp))[1]>>

\* C16: every RowSet tableViewHandler or visData sends carries the number of
\* rows of the table it was read from, whatever the cap let through.
C16_TotalRowsIsTableSize ==
    (/\ resp.handler \in {"table", "vis"}
     /\ ReadRun(resp)
     /\ resp.body.kind = "json")
    => /\ resp.queried # <<>>
       /\ resp.body.totalRows = Count(RowsOf(SrcData(resp), resp.queried[1]))

\* C17: every object handle a read handler opened is released when the
\* handler has returned.
C17_HandlesReleased ==
    resp.handler \in ReadHandlers => resp.closed = resp.opened

\* C18: no scratch file of uploadDataHandler is left when it has returned.
C18_ScratchRemoved ==
    resp.handler = "upload" => resp.scratch = 0

\* C19: when the stored object does not open, tableViewHandler,
\* downloadCSVHandler and visData answer with a storage error: status 500, a
\* message, no body, and nothing further is done with the handle.
C19_OpenFailureReported ==
    (resp.handler \in {"table", "csv", "vis"} /\ resp.fault \in OpenFaults)
    => /\ resp.status = 500
       /\ resp.msg # ""
       /\ resp.body = NoBody
       /\ resp.queried = <<>>

\* the answers of uploadDataHandler to an upload it rejects
UploadRejections ==
    {"You need to be logged in", "Public value incorrect", "Invalid database name",
     "Database file is 0 length?",
     "Error when sanity checking file.  Possibly encrypted or not a database?",
     "Database has no tables?"}

\* C20: a step in which uploadDataHandler rejects an upload (no session, public
\* flag, database name, zero length, sanity check) leaves the object store and
\* the metadata store as they were, and an upload rejected for its length has
\* passed the validation of its name.
C20_RejectedUploadFrame ==
    /\ [][(/\ resp' # resp
           /\ resp'.handler = "upload"
           /\ resp'.msg \in UploadRejections)
          => (meta' = meta /\ objects' = objects)]_vars
    /\ []((resp.handler = "upload" /\ resp.msg = "Database file is 0 length?")
          => ValidateDB(resp.name))

\* an empty upload with a bad name is rejected for its name while records and
\* objects are stored
C20_Witness ==
    /\ resp.handler = "upload"
    /\ resp.msg = "Invalid database name"
    /\ FileSize(resp.file) = 0
    /\ meta # <<>>
    /\ objects # << >>

\* C21: the object id loop of uploadDataHandler stops with the storage
\* exhausted error after a bounded number of collisions: no run is still in the
\* loop, about to draw another id, after MaxTries collisions.
C21_IdLoopBounded ==
    \A w \in Uploaders : ~(up[w].pc = "genid" /\ up[w].tries >= MaxTries)

\* the version numbers ever given to (owner, name): stored or removed
EverAssigned(owner, name) ==
    VersionsOf(owner, name) \cup {r[3] : r \in {x \in removed : x[1] = owner /\ x[2] = name}}

\* C22: with uploads one after the other, removals of versions in between and
\* no failed lookup, the version number of a record that is inserted is greater
\* than every version number given to its (owner, name) before, removed ones
\* included.
C22_VersionsNeverReused ==
    [][(/\ workload = "removals"
        /\ Len(meta') > Len(meta)
        /\ \A w \in Uploaders : ~up[w].highErr)
       => LET r == meta'[Len(meta')] IN
          \A v \in EverAssigned(r.owner, r.name) : r.version > v]_vars

\* C30: a run of uploadDataHandler whose highest version lookup failed stores
\* no object and inserts no record, and no record with version 1 is inserted
\* for an (owner, name) that has records.
C30_FailedLookupStopsUpload ==
    [][/\ \A w \in Uploaders :
             (up[w].highErr /\ up'[w] # up[w]) => (objects' = objects /\ meta' = meta)
       /\ (Len(meta') > Len(meta) /\ meta'[Len(meta')].version = 1)
              => RecordsOf(meta'[Len(meta')].owner, meta'[Len(meta')].name) = {}]_vars

\* C23: no step of uploadDataHandler changes the cache, and a visData run whose
\* cache lookup works and whose key has an entry sends that entry's bytes and
\* leaves the cache as it is, whatever has been uploaded since the entry was
\* written.
C23_UploadLeavesCache ==
    [][/\ (\E w \in Uploaders : up'[w] # up[w]) => cache' = cache
       /\ \A v \in VisWorkers :
             (/\ vis[v].pc = "lookup"
              /\ vis'[v] # vis[v]
              /\ vis[v].key \in DOMAIN cache
              /\ ~vis'[v].lookupErr)
             => /\ resp'.cached
                /\ resp'.body = cache[vis[v].key].body
                /\ cache' = cache]_vars

\* a request is answered from the cache with a body computed from a version
\* that is no longer the highest
C23_Witness ==
    /\ resp.handler = "vis"
    /\ resp.cached
    /\ resp.src \in 1..Len(meta)
    /\ resp.key \in DOMAIN cache
    /\ meta[resp.src].version < HighestVersion(resp.owner, resp.name)

\* C24: with concurrent visData runs for one cache key and no failing cache
\* lookup, a cache entry is never written again before it has expired: from one
\* state to the next an entry that stays in the cache stays as it was written
\* (by the same run).
C24_EntryImmutable ==
    [][(workload = "visrace" /\ \A v \in VisWorkers : ~vis[v].lookupErr)
       => \A k \in DOMAIN cache \cap DOMAIN cache' : cache'[k] = cache[k]]_vars

\* the row cap of the request a response answers
RowCap(r) ==
    IF r.handler = "vis" THEN maxVals
    ELSE IF r.requester = "" THEN AnonMaxRows ELSE r.pref

C26_QueryFromValidatedInput ==
    (resp.handler = "vis" /\ resp.queried # << >> /\ resp.query.table # "")
    => /\ \A i \in 1..Len(resp.queried) : ValidatePGTable(resp.queried[i])
       /\ resp.query.xcol # "" => ValidatePGTable(resp.query.xcol)
       /\ resp.query.ycol # "" => ValidatePGTable(resp.query.ycol)
       /\ \A i \in 1..Len(resp.clauses) :
             /\ resp.clauses[i].Type \in WhereTypes
             /\ resp.clauses[i].Column # ""
             /\ ValidatePGTable(resp.clauses[i].Column)

\* C27: the filter value of a request reaches the query engine as the value of
\* the one filter clause, as it was sent; it is bound as a parameter, and the
\* statement is the one any other value gives.
C27_FilterValueIsData ==
    (/\ resp.handler = "vis"
     /\ resp.queried # << >>
     /\ resp.query.xcol # "" /\ resp.query.ycol # ""
     /\ resp.query.wval # "" /\ resp.query.wtype # "")
    => /\ resp.clauses = << [Column |-> resp.query.wcol, Type |-> resp.query.wtype,
                             Value |-> resp.query.wval] >>
       /\ resp.params = << resp.query.wval >>
       /\ resp.sql = QueryText(resp.queried[1], resp.query,
                               << [Column |-> resp.query.wcol, Type |-> resp.query.wtype,
                                   Value |-> ""] >>)

\* a filter value with a quote and a comment marker is compared as a value: it
\* equals no stored value and no row comes back
C27_Witness ==
    /\ resp.handler = "vis"
    /\ resp.queried = << "t" >>
    /\ resp.query.wval = "' OR 1=1 --"
    /\ resp.params = << "' OR 1=1 --" >>
    /\ resp.status = 200
    /\ resp.body.kind = "json"
    /\ resp.body.rowCount = 0

\* C28: GetPub returns true only when the "public" form value is present and
\* parses as true, and then with a nil error; for an absent value and for one
\* that does not parse it returns false with an error that is not nil.
C28_GetPubDefaultsToFalse ==
    resp.handler = "getpub"
    => /\ resp.pub => (/\ resp.form \in {"1", "t", "T", "TRUE", "true", "True"}
                       /\ resp.err = "")
       /\ resp.form \notin {"1", "t", "T", "TRUE", "true", "True",
                            "0", "f", "F", "FALSE", "false", "False"}
          => (~resp.pub /\ resp.err # "")

\* the absent value read as private, with an error
C28_Witness ==
    /\ resp.handler = "getpub"
    /\ resp.form = ""
    /\ ~resp.pub
    /\ resp.err = "No public/private value present"

\* C29: a login session is created only for a user name that is not empty and
\* is in the user store; a run of auth0CallbackHandler that finds no account
\* for the identity creates the registration session alone and redirects once.
C29_LoginSessionNeedsAccount ==
    /\ \A s \in sessions :
          s.kind = "login" => (s.UserName # "" /\ \E a \in users : a.name = s.UserName)
    /\ (/\ resp.handler = "callback"
        /\ resp.status = 307
        /\ UserNameFromAuth0ID(resp.profile.auth0id) = "")
       => /\ resp.added = << RegistrationSession(resp.profile.auth0id, resp.profile.email) >>
          /\ Len(resp.redirects) = 1

\* C32: a failure of the cache does not fail a visData request: a lookup that
\* fails sends nothing and leads on to the read of the database, a lookup
\* answers only with the bytes of an entry, and a run whose lookup or whose
\* write failed sends the response the database gives; when the write failed
\* that is the freshly computed response.
C32_CacheFailuresTolerated ==
    [][\A v \in VisWorkers :
          /\ (vis[v].pc = "lookup" /\ vis'[v].lookupErr)
             => (vis'[v].pc = "read" /\ resp' = resp)
          /\ (vis[v].pc = "lookup" /\ vis'[v] # vis[v] /\ resp' # resp)
             => (resp'.cached /\ resp'.cacheErr = {})
          /\ (vis[v].pc = "read" /\ vis'[v] # vis[v] /\ resp'.cacheErr # {})
             => LET page == IF resp'.fault = "open" THEN Silent
                            ELSE visRead(ObjectAt(vis[v].bucket, vis[v].id), vis[v].query,
                                         resp'.fault)
                IN  /\ ~resp'.cached
                    /\ resp'.status = page.status
                    /\ resp'.msg = page.msg
                    /\ resp'.body = page.body
                    /\ "write" \in resp'.cacheErr
                       => (resp'.status = 200 /\ resp'.body.kind = "json")]_vars

\* a run whose lookup and whose write both failed, answered with rows
C32_Witness ==
    /\ resp.handler = "vis"
    /\ resp.cacheErr = {"lookup", "write"}
    /\ ~resp.cached
    /\ resp.status = 200
    /\ resp.body.kind = "json"
    /\ resp.body.rowCount > 0

C33_StoredPrefsInRange ==
    [][/\ \A u \in DOMAIN prefs' :
             /\ prefs'[u].rows \in 1..500
             /\ prefs'[u].by = LoginSession(u)
       /\ (/\ resp' # resp
           /\ resp'.handler = "pref"
           /\ \/ resp'.sess.kind # "login"
              \/ resp'.maxrows = << >>
              \/ ~Atoi(resp'.maxrows).ok
              \/ Atoi(resp'.maxrows).n \notin 1..500)
          => prefs' = prefs]_vars

\* the results of the components a composite extractor reads, in its order
Parts(fn, r) ==
    CASE fn = "GetOD" -> << GetOD(IgnoreLeading, r) >>
      [] fn = "GetODC" -> << GetOD(IgnoreLeading, r), GetFormCommit(r) >>
      [] fn = "GetODT" -> << GetOD(IgnoreLeading, r), GetTable(r) >>
      [] fn = "GetODTC" -> << GetOD(IgnoreLeading, r), GetTable(r), GetFormCommit(r) >>
      [] fn = "GetFormUDC" -> << GetUsername(r), GetDatabase(r), GetFormCommit(r) >>
      [] fn = "GetUFD" -> << GetUsername(r), GetFolder(r), GetDatabase(r) >>

RECURSIVE Joined(_)
Joined(parts) ==
    IF parts = << >> THEN << >> ELSE Head(parts).vals \o Joined(Tail(parts))

\* C34: a composite extractor returns either the values of all its components
\* with a nil error, when every component passed, or the empty string for
\* every component with the error of the first component that failed.
C34_ExtractorsAllOrNothing ==
    resp.handler \in Extractors
    => LET parts == Parts(resp.handler, resp.request)
           failing == {i \in 1..Len(parts) : parts[i].err # ""}
       IN  /\ Len(resp.out.vals) = Len(Joined(parts))
           /\ IF failing = {}
              THEN resp.out.err = "" /\ resp.out.vals = Joined(parts)
              ELSE /\ resp.out.err # ""
                   /\ \E i \in failing :
                         /\ \A j \in failing : i <= j
                         /\ resp.out.err = parts[i].err
                   /\ \A j \in 1..Len(resp.out.vals) : resp.out.vals[j] = ""

\* a good path with a bad table name and a bad commit: the error of the table
\* name and no value
C34_Witness ==
    /\ resp.handler = "GetODTC"
    /\ resp.request.path = <<"", "x", "table", "alice", "d">>
    /\ resp.request.table = "t;"
    /\ resp.request.commit = "c!"
    /\ resp.out = Got(<< "", "", "", "" >>, "Invalid table name")

====
